---- MODULE Spec2Model ----
(***************************************************************************)
(* LogiAudit AI: the image sharpness gatekeeper (checkImageBlurry) of      *)
(* App.tsx, as a state machine.                                            *)
(*                                                                         *)
(* One call of checkImageBlurry creates a promise and an Image element.    *)
(* The browser then fires exactly one of the element's two events, load or *)
(* error; each handler is one action.  The load handler resizes the image  *)
(* onto an 800 pixel wide canvas, reads the RGBA bytes back, computes a    *)
(* four-neighbour Laplacian on the luminance of every interior cell, keeps *)
(* the magnitudes above the noise gate, and scores the image by the floor  *)
(* of the mean of the strongest 20% of them.                               *)
(*                                                                         *)
(* Arithmetic.  The handler computes in IEEE 754 doubles, and so does the  *)
(* model: luminances, Laplacian magnitudes and their sum are doubles,      *)
(* rounded after every operation (section "JavaScript numbers").           *)
(***************************************************************************)
EXTENDS Integers, Sequences, FiniteSets, TLC

VARIABLES
    pc,             \* "pending" | "settled" | "resized" | "idle"
    img,            \* the source image: [width, height, content]
    path,           \* which branch of the handlers ran
    gridW,          \* w  (line 304)
    gridH,          \* h  (line 305)
    imageData,      \* what getImageData returned (line 297)
    edgeStrengths,  \* the array edgeStrengths when the handler returns
    statComputed,   \* TRUE iff lines 342-353 (sort, slice, mean) ran
    sampleSize,     \* sampleSize (line 347), 0 when not computed
    resolves,       \* the values passed to the promise's resolve, in order
    env,            \* what the platform did during the load handler
    escaped         \* TRUE iff an exception left a handler

gateVars == <<pc, img, path, gridW, gridH, imageData, edgeStrengths,
              statComputed, sampleSize, resolves, env, escaped>>

(***************************************************************************)
(* The App component (lines 376-518) and its FileUploader children.        *)
(* React state is one variable per useState.  A handler sees the state of  *)
(* the render it was created in; the part of an async handler after an     *)
(* await still sees that render's state, so a pending startPreCheck or     *)
(* executeAudit carries the values it captured.                            *)
(***************************************************************************)
VARIABLES
    goodsImage,       \* useState, 0 for null, else the id of the ImageFile
    docImage,         \* useState, 0 for null, else the id of the ImageFile
    isAnalyzing,      \* useState
    result,           \* useState, << >> for null, else << AuditResult >>
    error,            \* useState, "null" or the message
    history,          \* useState, newest first
    showBlurModal,    \* useState
    blurScore,        \* useState
    loadingStepIndex, \* useState
    dynamicSteps,     \* useState
    stored,           \* localStorage item logiAuditHistory: [kind, list]
    uploads,          \* per slot, handleFileChange calls awaiting processFileToBase64
    checks,           \* startPreCheck calls awaiting checkImageBlurry
    audits,           \* executeAudit calls awaiting performAudit
    liveUrls,         \* object URLs created and not revoked, by image id
    nextImage,        \* the id the next chosen file gets
    nextRun,          \* the id the next Start Audit click gets
    verdictOf,        \* run id -> << >> or << the verdict the run received >>
    modalRun,         \* the run whose verdict last opened the blur modal
    requested         \* every performAudit call issued so far

appVars == <<goodsImage, docImage, isAnalyzing, result, error, history,
             showBlurModal, blurScore, loadingStepIndex, dynamicSteps, stored,
             uploads, checks, audits, liveUrls, nextImage, nextRun,
             verdictOf, modalRun, requested>>

(***************************************************************************)
(* One call of performAudit (lines 85-254): the primary attempt, the        *)
(* fallback attempt and the outer catch.                                   *)
(***************************************************************************)
VARIABLES
    svcPc,          \* "idle" | "primary" | "fallback" | "done"
    svcCalls,       \* the model names passed to generate, in order
    svcResponses,   \* what the generate calls settled with, in order
    svcOutcome      \* << >> or << what performAudit settled with >>

svcVars == <<svcPc, svcCalls, svcResponses, svcOutcome>>

VARIABLE
    mounted         \* TRUE iff the App's mount effect (lines 394-403) has run

(***************************************************************************)
(* The AuditDisplay component (src/components/AuditDisplay.tsx), rendered  *)
(* by the App while result is non-null, and its generateComplaintEmail     *)
(* requests.                                                               *)
(***************************************************************************)
VARIABLES
    isGeneratingEmail,  \* useState(false)                         (line 18)
    showEmailModal,     \* useState(false)                         (line 19)
    emailDraft,         \* << >> for null, or << the draft >>      (line 20)
    hasCopied,          \* useState(false)                         (line 23)
    drafts,             \* the generateComplaintEmail requests in flight:
                        \* for, the run of the result passed; live, TRUE
                        \* iff the component that asked is still mounted
    emailAlert,         \* TRUE iff the alert of line 34 was raised since
                        \* the last click on the draft button
    statusOf            \* inspection_summary.status of the report the
                        \* service returns for each run

mailVars == <<isGeneratingEmail, showEmailModal, emailDraft, hasCopied,
              drafts, emailAlert, statusOf>>

\* the variables no step of checkImageBlurry changes
outsideGate == <<appVars, svcVars, mounted, mailVars>>

\* the variables no handler of the App changes, but for the unmounting of
\* AuditDisplay when the result is set to null
outsideApp == <<gateVars, svcVars, mounted, mailVars>>

vars == <<gateVars, appVars, svcVars, mounted, mailVars>>

(***************************************************************************)
(* Program constants                                                       *)
(***************************************************************************)
targetWidth == 800
NoiseGate == 15
MinEdges == 100
BLUR_THRESHOLD == 40

(***************************************************************************)
(* Bounds of the model                                                     *)
(***************************************************************************)
\* the largest number of isolated marks drawn on a synthetic canvas
MaxDots == 102
\* the largest contrast step between successive marks
MaxSpan == 6
\* the number of files the user chooses in the two uploaders
MaxUploads == 2
\* the number of Start Audit clicks
MaxRuns == 2

(***************************************************************************)
(* Inputs: source images.                                                  *)
(* content describes what the canvas holds after drawImage has resampled   *)
(* the source to the analysis grid: a uniform grey background bg with n    *)
(* isolated marks on row 1, three columns apart, mark j (from 0) brighter  *)
(* than the background by lo + (7*j mod span) in the channels chan.        *)
(* With chan = "checker" the content is a one-pixel checkerboard instead:  *)
(* cells with x + y even hold bg + lo, the others bg.                      *)
(***************************************************************************)
DotCounts == {0, 99, 100, 101, MaxDots, 120}
Contents ==
    [bg : {0}, n : DotCounts, lo : {9, 10, 15, 17}, span : {1, MaxSpan},
     chan : {"rgb"}]
    \cup [bg : {0}, n : {100, 120}, lo : {60, 100}, span : {1},
          chan : {"g"}]
    \cup [bg : {4, 200, 255}, n : {0}, lo : {9}, span : {1}, chan : {"rgb"}]
    \cup [bg : {4}, n : {100}, lo : {11, 15}, span : {1}, chan : {"rgb"}]
    \cup [bg : {0}, n : {0}, lo : {200, 255}, span : {1},
          chan : {"checker"}]

\* <<width, height>> of the decoded source images
Dims == { <<800, 3>>, <<1600, 6>>, <<400, 2>>, <<800, 4>>,
          <<800, 2>>, <<800, 1>>, <<3000, 1>>, <<3000, 8>>, <<39200, 49>> }

Images ==
    { [width |-> d[1], height |-> d[2], content |-> c] :
        d \in Dims, c \in Contents }

UniformContent == [bg |-> 0, n |-> 0, lo |-> 9, span |-> 1, chan |-> "rgb"]

\* <<width, height>> of the source images of the resize computation
ResizeDims ==
    ({400, 607, 799, 800, 801, 1600, 3000, 4000}
        \X {1, 2, 3, 4, 7, 300, 600, 607, 800, 1200, 3000, 4000})
        \cup { <<2450, 49>> }

ResizeImages ==
    { [width |-> d[1], height |-> d[2], content |-> UniformContent] :
        d \in ResizeDims }


(***************************************************************************)
(* JavaScript numbers                                                      *)
(* Every number of the load handler is an IEEE 754 double.  A double is    *)
(* kept as [neg, m]: its sign and its magnitude m = <<i, a, b, c>>, which  *)
(* stands for i + a/2^20 + b/2^40 + c/2^60 with a, b, c in 0..2^20-1.      *)
(* The luminance weights are multiples of 2^-56 and the pixel bytes are    *)
(* integers, so every product, sum and difference the handler forms is a   *)
(* multiple of 2^-60 before it is rounded; each operation computes that    *)
(* exact value and rounds it to 53 significant bits, ties to even, as the  *)
(* processor does.  Zero is kept with neg = FALSE.                         *)
(***************************************************************************)
Limb == 2^20

Pow2 == [n \in 0..30 |-> 2^n]

RECURSIVE Log2(_)
\* the position of the leading bit of n >= 1
Log2(n) == IF n < 2 THEN 0 ELSE 1 + Log2(n \div 2)

MagZero == <<0, 0, 0, 0>>

\* the carries (or borrows) of the three fraction limbs
MagCarry(i, a, b, c) ==
    LET b1 == b + (c \div Limb)
        a1 == a + (b1 \div Limb)
    IN  << i + (a1 \div Limb), a1 % Limb, b1 % Limb, c % Limb >>

MagLess(x, y) ==
    \/ x[1] < y[1]
    \/ /\ x[1] = y[1]
       /\ \/ x[2] < y[2]
          \/ /\ x[2] = y[2]
             /\ \/ x[3] < y[3]
                \/ (x[3] = y[3] /\ x[4] < y[4])

MagAdd(x, y) == MagCarry(x[1] + y[1], x[2] + y[2], x[3] + y[3], x[4] + y[4])

\* x - y for y not above x
MagSub(x, y) == MagCarry(x[1] - y[1], x[2] - y[2], x[3] - y[3], x[4] - y[4])

\* x * n for a natural n below 2048
MagMul(x, n) == MagCarry(x[1] * n, x[2] * n, x[3] * n, x[4] * n)

\* the exponent s of the unit in the last place of the magnitude m, counted
\* in units of 2^-60: the 53rd bit below the leading one, or 0 when m has
\* fewer bits than that
UlpExponent(m) ==
    IF m[1] >= 1 THEN Log2(m[1]) + 8
    ELSE IF m[2] >= 2^13 THEN Log2(m[2]) - 12
    ELSE 0

\* m rounded to a multiple of 2^s units, ties to the even multiple
RoundTo(m, s) ==
    IF s = 0 THEN m
    ELSE IF s < 20
    THEN LET p    == Pow2[s]
             r    == m[4] % p
             q    == m[4] \div p
             half == p \div 2
             up   == r > half \/ (r = half /\ q % 2 = 1)
         IN  MagCarry(m[1], m[2], m[3], (IF up THEN q + 1 ELSE q) * p)
    ELSE LET t  == s - 20
             p  == Pow2[t]
             r  == m[3] % p
             q  == m[3] \div p
             gt == IF t = 0 THEN m[4] > 2^19
                   ELSE r > p \div 2 \/ (r = p \div 2 /\ m[4] > 0)
             eq == IF t = 0 THEN m[4] = 2^19
                   ELSE r = p \div 2 /\ m[4] = 0
             up == gt \/ (eq /\ q % 2 = 1)
         IN  MagCarry(m[1], m[2], (IF up THEN q + 1 ELSE q) * p, 0)

\* the double nearest to the exact magnitude m
Round53(m) == RoundTo(m, UlpExponent(m))

DZero == [neg |-> FALSE, m |-> MagZero]

\* the double of an integer
DInt(n) == [neg |-> n < 0, m |-> << (IF n < 0 THEN -n ELSE n), 0, 0, 0 >>]

DNeg(x) == IF x.m = MagZero THEN x ELSE [neg |-> ~x.neg, m |-> x.m]

\* x + y
DAdd(x, y) ==
    IF y.m = MagZero THEN x
    ELSE IF x.m = MagZero THEN y
    ELSE IF x.neg = y.neg
    THEN [neg |-> x.neg, m |-> Round53(MagAdd(x.m, y.m))]
    ELSE IF x.m = y.m THEN DZero
    ELSE IF MagLess(y.m, x.m)
    THEN [neg |-> x.neg, m |-> Round53(MagSub(x.m, y.m))]
    ELSE [neg |-> y.neg, m |-> Round53(MagSub(y.m, x.m))]

\* x - y
DSub(x, y) == DAdd(x, DNeg(y))

\* x * n for a natural n below 2048
DTimes(x, n) ==
    IF n = 0 \/ x.m = MagZero THEN DZero
    ELSE [neg |-> x.neg, m |-> Round53(MagMul(x.m, n))]

\* x < y
DLess(x, y) ==
    IF x.neg # y.neg THEN x.neg
    ELSE IF x.neg THEN MagLess(y.m, x.m)
    ELSE MagLess(x.m, y.m)

\* Math.floor(x)
DFloor(x) ==
    IF x.neg /\ (x.m[2] # 0 \/ x.m[3] # 0 \/ x.m[4] # 0)
    THEN -x.m[1] - 1
    ELSE IF x.neg THEN -x.m[1] ELSE x.m[1]

\* the doubles nearest to 0.299, 0.587 and 0.114             (line 301)
WeightR == [neg |-> FALSE, m |-> <<0, 313524, 234881, 25152>>]
WeightG == [neg |-> FALSE, m |-> <<0, 615514, 117440, 536832>>]
WeightB == [neg |-> FALSE, m |-> <<0, 119537, 696254, 486544>>]

(***************************************************************************)
(* The resize (lines 283-305)                                              *)
(***************************************************************************)
\* floor of a non-negative quotient a / b
FloorDiv(a, b) == a \div b

\* a resize that rounds the scaled height to the nearest integer
GridHeight_Rounded(im) ==
    FloorDiv(2 * im.height * targetWidth + im.width, 2 * im.width)

RECURSIVE Doublings(_, _)
\* the least k with v * 2^k >= w
Doublings(v, w) == IF v >= w THEN 0 ELSE 1 + Doublings(2 * v, w)

\* the exponent e of scaleFactor: 2^e <= targetWidth / w < 2^(e+1)
ScaleExponent(w) ==
    IF w <= targetWidth THEN Log2(targetWidth \div w)
    ELSE -Doublings(targetWidth, w)

RECURSIVE ShiftMod(_, _, _)
\* (v * 2^t) mod w
ShiftMod(v, t, w) == IF t = 0 THEN v % w ELSE ShiftMod((2 * v) % w, t - 1, w)

\* the integer part of targetHeight = img.height * (targetWidth / img.width),
\* both operations in doubles.  The quotient is rounded to 53 bits, with
\* remainder r of targetWidth * 2^(52-e) by the width: it is rounded down
\* when 0 < 2r < width.  The product is then below the exact
\* height * 800 / width by height * r / (width * 2^(52-e)).  When the exact
\* value is no integer the product has the same integer part.  When it is
\* an integer x, the product rounds to the double below x, and its integer
\* part is x - 1, exactly when that deficit exceeds half the gap between x
\* and the double below it                                  (lines 286-287)
TargetHeightFloor(im) ==
    LET w   == im.width
        h   == im.height
        num == h * targetWidth
        x   == num \div w
    IN  IF num % w # 0 \/ x = 0 THEN x
        ELSE LET e     == ScaleExponent(w)
                 r     == ShiftMod(targetWidth % w, 52 - e, w)
                 ex    == IF x = 1 THEN -1 ELSE Log2(x - 1)
                 g     == ex - e - 1
                 short == /\ r # 0
                          /\ 2 * r < w
                          /\ IF g >= 0 THEN h * r > w * 2^g
                             ELSE h * r * 2^(-g) > w
             IN  IF short THEN x - 1 ELSE x

\* Math.floor(img.height * (targetWidth / img.width))        (lines 286-305)
GridHeight(im) == TargetHeightFloor(im)

\* w = targetWidth                                           (lines 285, 304)
GridWidth(im) == targetWidth

\* canvas.height = targetHeight: the attribute is an unsigned long, the
\* fraction is dropped                                       (line 290)
CanvasHeight(im) == TargetHeightFloor(im)

\* ctx.getImageData(0, 0, targetWidth, targetHeight): sw and sh are converted
\* to long; a zero sw or sh raises IndexSizeError            (line 297)
GetImageDataThrows(im) == TargetHeightFloor(im) = 0

(***************************************************************************)
(* The canvas content read back by getImageData (lines 295-298)            *)
(***************************************************************************)
DotContrast(c, j) == c.lo + ((7 * j) % c.span)

IsDot(c, x, y) == y = 1 /\ x >= 1 /\ (x - 1) % 3 = 0 /\ (x - 1) \div 3 < c.n

\* byte k (0 = R, 1 = G, 2 = B, 3 = A) of the pixel at column x, row y
PixelByte(c, x, y, k) ==
    IF k = 3 THEN 255
    ELSE IF c.chan = "checker"
         THEN (IF (x + y) % 2 = 0 THEN c.bg + c.lo ELSE c.bg)
    ELSE IF IsDot(c, x, y) /\ (c.chan = "rgb" \/ (c.chan = "g" /\ k = 1))
         THEN c.bg + DotContrast(c, (x - 1) \div 3)
         ELSE c.bg

\* the ImageData of a canvas read of w x h pixels: its width, its height and
\* the canvas content its bytes are taken from                (line 297)
ImageData(c, w, h) == [width |-> w, height |-> h, content |-> c]

\* the data of an ImageData: its RGBA bytes, 0-indexed, row after row
DataOf(im) ==
    [i \in 0..(im.width * im.height * 4 - 1) |->
        PixelByte(im.content, (i \div 4) % im.width,
                  (i \div 4) \div im.width, i % 4)]

\* const data = imageData.data                                (line 298)
data == DataOf(imageData)

(***************************************************************************)
(* The Laplacian loop (lines 300-331)                                      *)
(***************************************************************************)
\* data[i] * 0.299 + data[i + 1] * 0.587 + data[i + 2] * 0.114, from left
\* to right                                                  (lines 300-302)
GetGray(d, i) ==
    DAdd(DAdd(DTimes(WeightR, d[i]), DTimes(WeightG, d[i + 1])),
         DTimes(WeightB, d[i + 2]))

\* Math.abs                                                  (line 322)
Abs(v) == [neg |-> FALSE, m |-> v.m]

\* a stencil whose centre weight does not balance the four neighbours
Lap_CentreTimesFive(d, w, x, y) ==
    LET i == (y * w + x) * 4
    IN  Abs(DSub(DSub(DSub(DSub(DTimes(GetGray(d, i), 5),
                                GetGray(d, i - w * 4)),
                           GetGray(d, i + w * 4)),
                      GetGray(d, i - 4)),
                 GetGray(d, i + 4)))

\* lap of the cell at column x, row y: the product and the four
\* subtractions from left to right                          (lines 313-322)
Lap(d, w, x, y) ==
    LET i == (y * w + x) * 4
        center == GetGray(d, i)
        top    == GetGray(d, i - w * 4)
        bottom == GetGray(d, i + w * 4)
        left   == GetGray(d, i - 4)
        right  == GetGray(d, i + 4)
    IN  Abs(DSub(DSub(DSub(DSub(DTimes(center, 4), top), bottom), left),
                 right))

\* a noise gate that lets the floor value itself through
PassesNoiseGate_Inclusive(lap) == ~DLess(lap, DInt(NoiseGate))

\* if (lap > 15)                                             (line 327)
PassesNoiseGate(lap) == DLess(DInt(NoiseGate), lap)

\* the number of iterations of the two nested loops          (lines 311-312)
NumInterior(w, h) == IF w > 2 /\ h > 2 THEN (w - 2) * (h - 2) ELSE 0

\* column and row of the n-th iteration (n from 1), y outer, x inner
LoopX(w, n) == 1 + ((n - 1) % (w - 2))
LoopY(w, n) == 1 + ((n - 1) \div (w - 2))

\* edgeStrengths when the loops end: the gated magnitudes in push order
CollectEdges(d, w, h) ==
    SelectSeq([n \in 1..NumInterior(w, h) |->
                   Lap(d, w, LoopX(w, n), LoopY(w, n))],
              PassesNoiseGate)

\* the byte indexes the n-th iteration reads
ReadIndexes(w, n) ==
    LET i == (LoopY(w, n) * w + LoopX(w, n)) * 4
    IN  UNION { {b, b + 1, b + 2} : b \in {i, i - w * 4, i + w * 4, i - 4, i + 4} }

(***************************************************************************)
(* The statistic and the classification (lines 333-363)                    *)
(***************************************************************************)
\* a content test that also rejects exactly MinEdges samples
TooFewEdges_Inclusive(n) == n <= MinEdges

\* if (edgeStrengths.length < 100)                           (line 335)
TooFewEdges(n) == n < MinEdges

\* a sort with the comparator reversed
SortDescending_Ascending(s) == SortSeq(s, LAMBDA a, b : DLess(a, b))

\* edgeStrengths.sort((a, b) => b - a): b - a is positive exactly when
\* b > a                                                     (line 342)
SortDescending(s) == SortSeq(s, LAMBDA a, b : DLess(b, a))

\* Math.floor(edgeStrengths.length * 0.2)                    (line 347)
SampleSize(n) == FloorDiv(n * 2, 10)

\* edgeStrengths.slice(0, sampleSize)                        (line 348)
TopEdges(sorted, k) == SubSeq(sorted, 1, k)

\* the reduce of line 350 over s[lo..hi], entered with the accumulator acc:
\* acc + s[lo] + ... + s[hi] added from left to right and rounded after
\* every addition.  The range is walked by halves, the left half first, so
\* that the order of the additions is that of the array; the test on left
\* is always true and only has the left half computed before the right one
\* is entered
RECURSIVE SumRange(_, _, _, _)
SumRange(s, lo, hi, acc) ==
    IF lo > hi THEN acc
    ELSE IF lo = hi THEN DAdd(acc, s[lo])
    ELSE LET mid  == (lo + hi) \div 2
             left == SumRange(s, lo, mid, acc)
         IN  IF left.neg \in BOOLEAN THEN SumRange(s, mid + 1, hi, left)
             ELSE left

\* topEdges.reduce((acc, val) => acc + val, 0)               (line 350)
SumSeq(s) == SumRange(s, 1, Len(s), DZero)

\* Math.floor(sum / sampleSize) for a sum that is not negative.  sum is a
\* double, so when it is below an integer multiple j * k it is below by at
\* least j * k * 2^-53; the quotient is then below j by more than half the
\* gap between j and the double under it, and its rounding stays below j:
\* the floor of the rounded quotient is that of the exact one
\*                                                      (lines 351-353)
ScoreOf(sum, k) == FloorDiv(DFloor(sum), k)

\* a classification with the comparison turned round
IsBlurry_Inverted(score) == score >= BLUR_THRESHOLD

\* score < BLUR_THRESHOLD                                    (line 363)
IsBlurry(score) == score < BLUR_THRESHOLD

Verdict(b, s) == [isBlurry |-> b, score |-> s]

\* the verdicts of the branches that do not score
NoContextVerdict == Verdict(FALSE, 999)                      \* line 279
InsufficientVerdict == Verdict(TRUE, 0)                      \* line 337
CatchVerdict == Verdict(FALSE, -1)                           \* line 368
OnErrorVerdict == Verdict(FALSE, 0)                          \* line 372

\* a catch block that logs the error and leaves the promise pending
CatchResolves_None == << >>

\* the values the catch block passes to resolve              (lines 365-369)
CatchResolves == << CatchVerdict >>

\* the verdict of the scoring branch for the sorted array    (lines 347-363)
ScoredVerdict(sorted) ==
    LET k     == SampleSize(Len(sorted))
        score == ScoreOf(SumSeq(TopEdges(sorted, k)), k)
    IN  Verdict(IsBlurry(score), score)


(***************************************************************************)
(* The handlers                                                            *)
(***************************************************************************)
\* the locals of a handler run that did not reach the statement setting them
Blank ==
    [path |-> "none", gridW |-> 0, gridH |-> 0,
     imageData |-> ImageData(UniformContent, 0, 0),
     edgeStrengths |-> << >>, statComputed |-> FALSE, sampleSize |-> 0,
     resolves |-> << >>, escaped |-> FALSE,
     env |-> [ctxOK |-> TRUE, platformThrows |-> FALSE]]

\* img.onload for the image im; ctxOK: getContext('2d') returned a context;
\* platformThrows: a canvas call inside the try block raised (lines 274-370)
OnloadRun(im, ctxOK, platformThrows) ==
    LET Start == [Blank EXCEPT !.env = [ctxOK |-> ctxOK,
                                        platformThrows |-> platformThrows]]
    IN
    IF ~ctxOK
    THEN [Start EXCEPT !.path = "noctx", !.resolves = << NoContextVerdict >>]
    ELSE IF platformThrows \/ GetImageDataThrows(im)
    THEN [Start EXCEPT !.path = "exception", !.resolves = CatchResolves]
    ELSE
      LET w     == GridWidth(im)
          h     == GridHeight(im)
          read  == ImageData(im.content, w, CanvasHeight(im))
          d     == DataOf(read)
          edges == CollectEdges(d, w, h)
      IN  IF TooFewEdges(Len(edges))
          THEN [Start EXCEPT !.path = "insufficient", !.gridW = w,
                             !.gridH = h, !.imageData = read,
                             !.edgeStrengths = edges,
                             !.resolves = << InsufficientVerdict >>]
          ELSE LET sorted == SortDescending(edges)
               IN  [Start EXCEPT !.path = "scored", !.gridW = w,
                                 !.gridH = h, !.imageData = read,
                                 !.edgeStrengths = sorted,
                                 !.statComputed = TRUE,
                                 !.sampleSize = SampleSize(Len(sorted)),
                                 !.resolves = << ScoredVerdict(sorted) >>]

\* img.onerror                                               (line 372)
OnerrorRun ==
    [Blank EXCEPT !.path = "error", !.resolves = << OnErrorVerdict >>]

Settle(r) ==
    /\ pc' = "settled"
    /\ path' = r.path
    /\ gridW' = r.gridW
    /\ gridH' = r.gridH
    /\ imageData' = r.imageData
    /\ edgeStrengths' = r.edgeStrengths
    /\ statComputed' = r.statComputed
    /\ sampleSize' = r.sampleSize
    /\ resolves' = r.resolves
    /\ env' = r.env
    /\ escaped' = r.escaped
    /\ UNCHANGED img
    /\ UNCHANGED outsideGate

\* the browser fires the load event of the Image element
ImgOnload ==
    /\ pc = "pending"
    /\ \E ctxOK \in BOOLEAN, platformThrows \in BOOLEAN :
          Settle(OnloadRun(img, ctxOK, platformThrows))

\* the browser fires the error event of the Image element
ImgOnerror ==
    /\ pc = "pending"
    /\ Settle(OnerrorRun)

\* the App component after its first render      (lines 377-392, 394-403)
\* no performAudit call is being followed
SvcIdle ==
    /\ svcPc = "idle"
    /\ svcCalls = << >>
    /\ svcResponses = << >>
    /\ svcOutcome = << >>

\* status: 'MATCH' | 'MISMATCH' | 'WARNING'            (src/types.ts line 2)
Statuses == { "MATCH", "MISMATCH", "WARNING" }

\* the state a freshly mounted AuditDisplay starts from, which is also what
\* is left when it is unmounted    (src/components/AuditDisplay.tsx 18-23)
AuditDisplayFresh ==
    /\ isGeneratingEmail = FALSE
    /\ showEmailModal = FALSE
    /\ emailDraft = << >>
    /\ hasCopied = FALSE

\* no AuditDisplay is mounted and no draft was ever requested; the reports
\* are not read for their status
MailIdle ==
    /\ AuditDisplayFresh
    /\ drafts = {}
    /\ emailAlert = FALSE
    /\ statusOf = [r \in 1..MaxRuns |-> "MATCH"]

\* the two FileUploader instances of the App               (lines 576-590)
Slots == { "goods", "doc" }

\* localStorage.getItem returns null: the key was never written
AbsentItem == [kind |-> "absent", list |-> << >>]

\* the key holds text JSON.parse rejects
UnparsableItem == [kind |-> "unparsable", list |-> << >>]

\* JSON.stringify(newHistory): the results are plain JSON data, so the text
\* determines the list                                        (line 421)
Stringify(list) == [kind |-> "json", list |-> list]

\* the App function has run once with the localStorage item item and the
\* mount effect is still to run                         (lines 377-392)
AppConstructed(item) ==
    /\ mounted = FALSE
    /\ goodsImage = 0
    /\ docImage = 0
    /\ isAnalyzing = FALSE
    /\ result = << >>
    /\ error = "null"
    /\ history = << >>
    /\ showBlurModal = FALSE
    /\ blurScore = 0
    /\ loadingStepIndex = 0
    /\ dynamicSteps = << >>
    /\ stored = item
    /\ uploads = [slot \in Slots |-> 0]
    /\ checks = {}
    /\ audits = {}
    /\ liveUrls = {}
    /\ nextImage = 1
    /\ nextRun = 1
    /\ verdictOf = [r \in 1..MaxRuns |-> << >>]
    /\ modalRun = 0
    /\ requested = {}

\* the App after its mount effect in a browser that never stored a history
\*                                                       (lines 377-403)
AppMounted ==
    /\ mounted = TRUE
    /\ goodsImage = 0
    /\ docImage = 0
    /\ isAnalyzing = FALSE
    /\ result = << >>
    /\ error = "null"
    /\ history = << >>
    /\ showBlurModal = FALSE
    /\ blurScore = 0
    /\ loadingStepIndex = 0
    /\ dynamicSteps = << >>
    /\ stored = AbsentItem
    /\ uploads = [slot \in Slots |-> 0]
    /\ checks = {}
    /\ audits = {}
    /\ liveUrls = {}
    /\ nextImage = 1
    /\ nextRun = 1
    /\ verdictOf = [r \in 1..MaxRuns |-> << >>]
    /\ modalRun = 0
    /\ requested = {}

\* checkImageBlurry has returned the pending promise          (lines 268-273)
InitWith(images) ==
    /\ pc = "pending"
    /\ img \in images
    /\ path = Blank.path
    /\ gridW = Blank.gridW
    /\ gridH = Blank.gridH
    /\ imageData = Blank.imageData
    /\ edgeStrengths = Blank.edgeStrengths
    /\ statComputed = Blank.statComputed
    /\ sampleSize = Blank.sampleSize
    /\ resolves = Blank.resolves
    /\ env = Blank.env
    /\ escaped = Blank.escaped
    /\ AppMounted
    /\ SvcIdle
    /\ MailIdle

Init == InitWith(Images)

Next == ImgOnload \/ ImgOnerror

Spec == Init /\ [][Next]_vars

(***************************************************************************)
(* The resize computation alone, over the source sizes ResizeDims          *)
(***************************************************************************)
\* lines 285-305 applied to the source image img, with a context and no
\* platform failure: the canvas is sized, the image drawn and the pixels
\* read, then w and h are set; when getImageData throws, lines 298-305 do
\* not run and the catch block resolves the promise          (lines 365-369)
Resize ==
    /\ pc = "pending"
    /\ IF GetImageDataThrows(img)
       THEN Settle(OnloadRun(img, TRUE, FALSE))
       ELSE /\ pc' = "resized"
            /\ gridW' = GridWidth(img)
            /\ gridH' = GridHeight(img)
            /\ imageData' = ImageData(img.content, GridWidth(img),
                                      CanvasHeight(img))
            /\ UNCHANGED <<img, path, edgeStrengths, statComputed,
                           sampleSize, resolves, env, escaped>>
            /\ UNCHANGED outsideGate

ResizeInit == InitWith(ResizeImages)

ResizeNext == Resize

ResizeSpec == ResizeInit /\ [][ResizeNext]_vars

\* the verdict the promise is fulfilled with: the first value resolved
Settled == pc = "settled"
TheVerdict == resolves[1]


(***************************************************************************)
(* The App component: handlers and continuations                           *)
(***************************************************************************)
\* the verdicts a blur check hands to startPreCheck: the fail-open verdict
\* of a failed load, the too-few-edges verdict and a scored verdict on either
\* side of the threshold
AppVerdicts ==
    { OnErrorVerdict, InsufficientVerdict,
      Verdict(IsBlurry(36), 36), Verdict(IsBlurry(55), 55) }

\* how a performAudit call settles: with a report or with a rejection
AuditOutcomes == { "report", "rejected" }

\* the state startPreCheck and the executeAudit(false) it calls read from the
\* render they were created in
StartClosure ==
    [goods |-> goodsImage, doc |-> docImage, history |-> history]

\* the state handleForceProceed and the executeAudit(true) it calls read from
\* the render they were created in
ForceClosure ==
    [goods |-> goodsImage, doc |-> docImage, history |-> history,
     blurScore |-> blurScore]

\* the performAudit calls startPreCheck makes before its await, if it
\* started the request in parallel with the gate decision
RequestsBeforeVerdict_Speculative(run) == { [run |-> run, forced |-> FALSE] }

\* the performAudit calls startPreCheck makes before its await: none
\*                                                           (lines 425-437)
RequestsBeforeVerdict(run) == {}

\* if every verdict halted the run
Halts_Always(check) == TRUE

\* if no verdict halted the run
Halts_Never(check) == FALSE

\* if (check.isBlurry): the run halts and the modal opens     (line 439)
Halts(check) == check.isBlurry

\* the threshold the blur modal prints next to the score      (line 726)
ModalThreshold == 40

\* the steps array of executeAudit                           (lines 466-478)
Steps(isForcedOverride) ==
    << "step1", "step2",
       IF isForcedOverride THEN "override" ELSE "verified",
       "step3", "step4" >>

\* if executeAudit never pushed the note
SystemNotes_None(isForcedOverride, cl) == << >>

\* the system note pushed onto anomalies_found, as the score it quotes
\*                                                           (lines 498-500)
SystemNotes(isForcedOverride, cl) ==
    IF isForcedOverride THEN << cl.blurScore >> ELSE << >>

\* executeAudit up to its await, called from the render captured in cl, on
\* behalf of run; with a null image the argument list of performAudit throws
\* a TypeError inside the try block and catch and finally run at once
\*                                                           (lines 463-488)
ExecuteAudit(cl, isForcedOverride, run) ==
    /\ dynamicSteps' = Steps(isForcedOverride)
    /\ IF cl.goods = 0 \/ cl.doc = 0
       THEN /\ isAnalyzing' = FALSE
            /\ error' = "TypeError"
            /\ UNCHANGED <<audits, requested>>
       ELSE /\ isAnalyzing' = TRUE
            /\ UNCHANGED error
            /\ audits' = audits \cup
                  { [run |-> run, forced |-> isForcedOverride, cl |-> cl] }
            /\ requested' = requested \cup
                  { [run |-> run, forced |-> isForcedOverride] }

\* the user chooses a file in the uploader of slot; the input is rendered
\* only while the slot is empty                 (part_001 lines 14-18, 74)
FileChosen(slot) ==
    /\ nextImage + uploads["goods"] + uploads["doc"] <= MaxUploads
    /\ IF slot = "goods" THEN goodsImage = 0 ELSE docImage = 0
    /\ uploads' = [uploads EXCEPT ![slot] = @ + 1]
    /\ UNCHANGED <<goodsImage, docImage, isAnalyzing, result, error, history,
                   showBlurModal, blurScore, loadingStepIndex, dynamicSteps,
                   stored, checks, audits, liveUrls, nextImage, nextRun,
                   verdictOf, modalRun, requested>>
    /\ UNCHANGED outsideApp

\* processFileToBase64 settles for a pending upload of slot; on success the
\* object URL is created and the image handed to the App
\*                                                    (part_001 lines 18-28)
FileRead(slot, ok) ==
    /\ uploads[slot] > 0
    /\ uploads' = [uploads EXCEPT ![slot] = @ - 1]
    /\ IF ok
       THEN /\ liveUrls' = liveUrls \cup {nextImage}
            /\ goodsImage' = (IF slot = "goods" THEN nextImage ELSE goodsImage)
            /\ docImage' = (IF slot = "doc" THEN nextImage ELSE docImage)
            /\ nextImage' = nextImage + 1
       ELSE UNCHANGED <<liveUrls, goodsImage, docImage, nextImage>>
    /\ UNCHANGED <<isAnalyzing, result, error, history, showBlurModal,
                   blurScore, loadingStepIndex, dynamicSteps, stored, checks,
                   audits, nextRun, verdictOf, modalRun, requested>>
    /\ UNCHANGED outsideApp

\* the remove button of the uploader of slot           (part_001 lines 32-37)
HandleRemove(slot) ==
    /\ IF slot = "goods" THEN goodsImage # 0 ELSE docImage # 0
    /\ liveUrls' = liveUrls \ { IF slot = "goods" THEN goodsImage ELSE docImage }
    /\ goodsImage' = (IF slot = "goods" THEN 0 ELSE goodsImage)
    /\ docImage' = (IF slot = "doc" THEN 0 ELSE docImage)
    /\ UNCHANGED <<isAnalyzing, result, error, history, showBlurModal,
                   blurScore, loadingStepIndex, dynamicSteps, stored, uploads,
                   checks, audits, nextImage, nextRun, verdictOf, modalRun,
                   requested>>
    /\ UNCHANGED outsideApp

\* {result && <AuditDisplay result={result} />} with result null: the
\* component is unmounted and its state discarded; its requests go on and
\* will settle into a component that is gone               (lines 684-686)
AuditDisplayUnmounts ==
    /\ isGeneratingEmail' = FALSE
    /\ showEmailModal' = FALSE
    /\ emailDraft' = << >>
    /\ hasCopied' = FALSE
    /\ drafts' = { [d EXCEPT !.live = FALSE] : d \in drafts }
    /\ UNCHANGED <<emailAlert, statusOf>>

\* disabled={isAnalyzing || !goodsImage || !docImage}        (line 604)
StartAuditEnabled == ~isAnalyzing /\ goodsImage # 0 /\ docImage # 0

\* the Start Audit button: startPreCheck up to its await     (lines 425-437)
StartPreCheck ==
    /\ StartAuditEnabled
    /\ nextRun <= MaxRuns
    /\ IF goodsImage = 0 \/ docImage = 0
       THEN /\ error' = "upload both"
            /\ UNCHANGED <<result, loadingStepIndex, checks, nextRun,
                           requested>>
       ELSE /\ error' = "null"
            /\ result' = << >>
            /\ loadingStepIndex' = 0
            /\ checks' = checks \cup { [run |-> nextRun, cl |-> StartClosure] }
            /\ nextRun' = nextRun + 1
            /\ requested' = requested \cup RequestsBeforeVerdict(nextRun)
    /\ UNCHANGED <<goodsImage, docImage, isAnalyzing, history, showBlurModal,
                   blurScore, dynamicSteps, stored, uploads, audits, liveUrls,
                   nextImage, verdictOf, modalRun>>
    /\ IF result' = << >> THEN AuditDisplayUnmounts ELSE UNCHANGED mailVars
    /\ UNCHANGED <<gateVars, svcVars, mounted>>

\* startPreCheck after its await: the blur check of run c resolves with the
\* verdict check                                             (lines 437-450)
CheckSettles(c, check) ==
    /\ c \in checks
    /\ checks' = checks \ {c}
    /\ verdictOf' = [verdictOf EXCEPT ![c.run] = << check >>]
    /\ IF Halts(check)
       THEN /\ blurScore' = check.score
            /\ showBlurModal' = TRUE
            /\ modalRun' = c.run
            /\ UNCHANGED <<isAnalyzing, dynamicSteps, error, audits,
                           requested>>
       ELSE /\ ExecuteAudit(c.cl, FALSE, c.run)
            /\ UNCHANGED <<blurScore, showBlurModal, modalRun>>
    /\ UNCHANGED <<goodsImage, docImage, result, history, loadingStepIndex,
                   stored, uploads, liveUrls, nextImage, nextRun>>
    /\ UNCHANGED outsideApp

\* if Re-upload left the rejected document in its slot
HandleRetake_KeepsDocument ==
    /\ showBlurModal
    /\ showBlurModal' = FALSE
    /\ error' = "upload clearer"
    /\ UNCHANGED <<goodsImage, docImage, isAnalyzing, result, history,
                   blurScore, loadingStepIndex, dynamicSteps, stored, uploads,
                   checks, audits, liveUrls, nextImage, nextRun, verdictOf,
                   modalRun, requested>>
    /\ UNCHANGED outsideApp

\* the Re-upload button of the blur modal                    (lines 452-456)
HandleRetake ==
    /\ showBlurModal
    /\ showBlurModal' = FALSE
    /\ docImage' = 0
    /\ error' = "upload clearer"
    /\ UNCHANGED <<goodsImage, isAnalyzing, result, history, blurScore,
                   loadingStepIndex, dynamicSteps, stored, uploads, checks,
                   audits, liveUrls, nextImage, nextRun, verdictOf,
                   modalRun, requested>>
    /\ UNCHANGED outsideApp

\* the Force Proceed button of the blur modal                (lines 458-461)
HandleForceProceed ==
    /\ showBlurModal
    /\ showBlurModal' = FALSE
    /\ ExecuteAudit(ForceClosure, TRUE, modalRun)
    /\ UNCHANGED <<goodsImage, docImage, result, history, blurScore,
                   loadingStepIndex, stored, uploads, checks, liveUrls,
                   nextImage, nextRun, verdictOf, modalRun>>
    /\ UNCHANGED outsideApp

\* the AuditResult executeAudit builds from the report for request a
\*                                                           (lines 489-500)
AuditResultOf(a) ==
    [run |-> a.run, notes |-> SystemNotes(a.forced, a.cl)]

\* executeAudit after its await: the performAudit call a settles
\*                                                           (lines 489-508)
AuditSettles(a, outcome) ==
    /\ a \in audits
    /\ audits' = audits \ {a}
    /\ isAnalyzing' = FALSE
    /\ IF outcome = "report"
       THEN /\ result' = << AuditResultOf(a) >>
            /\ history' = << AuditResultOf(a) >> \o a.cl.history
            /\ stored' = Stringify(<< AuditResultOf(a) >> \o a.cl.history)
            /\ UNCHANGED error
       ELSE /\ error' = "audit failed"
            /\ UNCHANGED <<result, history, stored>>
    /\ UNCHANGED <<goodsImage, docImage, showBlurModal, blurScore,
                   loadingStepIndex, dynamicSteps, uploads, checks, liveUrls,
                   nextImage, nextRun, verdictOf, modalRun, requested>>
    /\ UNCHANGED outsideApp

\* the Clear History button, rendered while the history is not empty
\*                                   (lines 419-422, 516-518; types.ts 54, 116)
HandleClearHistory ==
    /\ Len(history) > 0
    /\ history' = << >>
    /\ stored' = Stringify(<< >>)
    /\ UNCHANGED <<goodsImage, docImage, isAnalyzing, result, error,
                   showBlurModal, blurScore, loadingStepIndex, dynamicSteps,
                   uploads, checks, audits, liveUrls, nextImage, nextRun,
                   verdictOf, modalRun, requested>>
    /\ UNCHANGED outsideApp

\* the 2 second interval of the loading steps                (lines 405-417)
StepTimer ==
    /\ isAnalyzing
    /\ Len(dynamicSteps) > 0
    /\ loadingStepIndex < Len(dynamicSteps) - 1
    /\ loadingStepIndex' = loadingStepIndex + 1
    /\ UNCHANGED <<goodsImage, docImage, isAnalyzing, result, error, history,
                   showBlurModal, blurScore, dynamicSteps, stored, uploads,
                   checks, audits, liveUrls, nextImage, nextRun, verdictOf,
                   modalRun, requested>>
    /\ UNCHANGED outsideApp

\* no blur check of the gatekeeper's own state machine is running while the
\* App is explored
GateIdle ==
    /\ pc = "idle"
    /\ img = [width |-> 800, height |-> 3, content |-> UniformContent]
    /\ path = Blank.path
    /\ gridW = Blank.gridW
    /\ gridH = Blank.gridH
    /\ imageData = Blank.imageData
    /\ edgeStrengths = Blank.edgeStrengths
    /\ statComputed = Blank.statComputed
    /\ sampleSize = Blank.sampleSize
    /\ resolves = Blank.resolves
    /\ env = Blank.env
    /\ escaped = Blank.escaped

AppInit == GateIdle /\ AppMounted /\ SvcIdle /\ MailIdle

AppNext ==
    \/ \E slot \in Slots : FileChosen(slot)
    \/ \E slot \in Slots, ok \in BOOLEAN : FileRead(slot, ok)
    \/ \E slot \in Slots : HandleRemove(slot)
    \/ StartPreCheck
    \/ \E c \in checks, check \in AppVerdicts : CheckSettles(c, check)
    \/ HandleRetake
    \/ HandleForceProceed
    \/ \E a \in audits, outcome \in AuditOutcomes : AuditSettles(a, outcome)
    \/ HandleClearHistory

\* the user's events and the continuations of the App; loadingStepIndex is
\* read by no handler, and the interval that advances it is left to
\* TimedAppSpec
AppSpec == AppInit /\ [][AppNext]_vars

TimedAppNext == AppNext \/ StepTimer

TimedAppSpec == AppInit /\ [][TimedAppNext]_vars

\* results a previous session left in the history
EarlierResults ==
    { [run |-> 0, notes |-> << >>], [run |-> 0, notes |-> << 12 >>] }

\* what the key logiAuditHistory may hold when the App is opened
StoredItems ==
    { AbsentItem, UnparsableItem, Stringify(<< >>) }
        \cup { Stringify(<< e >>) : e \in EarlierResults }
        \cup { Stringify(<< [run |-> 0, notes |-> << 12 >>],
                            [run |-> 0, notes |-> << >>] >>) }

\* the mount effect: the item is read and, when there is one, parsed; a
\* SyntaxError of JSON.parse is caught and logged            (lines 394-403)
MountEffect ==
    /\ ~mounted
    /\ mounted' = TRUE
    /\ history' = (IF stored.kind = "json" THEN stored.list ELSE history)
    /\ UNCHANGED <<goodsImage, docImage, isAnalyzing, result, error,
                   showBlurModal, blurScore, loadingStepIndex, dynamicSteps,
                   stored, uploads, checks, audits, liveUrls, nextImage,
                   nextRun, verdictOf, modalRun, requested>>
    /\ UNCHANGED <<gateVars, svcVars, mailVars>>

MountInit ==
    /\ GateIdle
    /\ SvcIdle
    /\ MailIdle
    /\ \E item \in StoredItems : AppConstructed(item)

MountNext ==
    \/ MountEffect
    \/ (mounted /\ AppNext)

\* the App from its first render on, opened over any stored item
MountSpec == MountInit /\ [][MountNext]_vars

(***************************************************************************)
(* performAudit.  A text is the sequence of its UTF-16 code units: a       *)
(* printable ASCII character stands for itself and any other code unit is  *)
(* written U+ and its four hexadecimal digits.  An error is the thrown     *)
(* value: its message (<< >> when it has none) and its JSON.stringify      *)
(* text.                                                                   *)
(***************************************************************************)
PrimaryModel == "gemini-3-pro-preview"
FallbackModel == "gemini-2.5-flash"

\* "429", "RESOURCE_EXHAUSTED" and "quota", the quota marks    (line 190)
QuotaMarks ==
    { << "4", "2", "9" >>,
      << "R", "E", "S", "O", "U", "R", "C", "E", "_", "E", "X",
         "H", "A", "U", "S", "T", "E", "D" >>,
      << "q", "u", "o", "t", "a" >> }

\* String.prototype.includes: needle occurs in text as a run of characters
Includes(text, needle) ==
    \E i \in 1..(Len(text) - Len(needle) + 1) :
        SubSeq(text, i, i + Len(needle) - 1) = needle

\* error.message || JSON.stringify(error)                     (line 189)
ErrorText(err) == IF err.message # << >> THEN err.message ELSE err.json

\* if every failure counted as a quota failure
IsQuotaError_Always(err) == TRUE

\* isQuotaError                                               (lines 188-191)
IsQuotaError(err) ==
    \E mark \in QuotaMarks : Includes(ErrorText(err), mark)

\* JSON.stringify of an Error object: it has no enumerable property
EmptyObjectText == << "{", "}" >>

NoError == [message |-> << >>, json |-> << >>]

\* new Error("API Key is missing")                            (line 92)
MissingKeyError ==
    [message |-> << "A", "P", "I", " ", "K", "e", "y", " ", "i", "s", " ",
                    "m", "i", "s", "s", "i", "n", "g" >>,
     json |-> EmptyObjectText]

\* new Error("No response text generated")                    (line 243)
NoTextError ==
    [message |-> << "N", "o", " ", "r", "e", "s", "p", "o", "n", "s", "e",
                    " ", "t", "e", "x", "t", " ", "g", "e", "n", "e", "r",
                    "a", "t", "e", "d" >>,
     json |-> EmptyObjectText]

\* new Error of the final quota message: the warning sign U+26A0 U+FE0F, a
\* space, "AI Quota Limit Reached (Error 429). Please wait a moment or check
\* your Google AI billing details.", 100 code units           (line 250)
QuotaLimitError ==
    [message |-> << "U+26A0", "U+FE0F", " ", "A", "I", " ", "Q", "u", "o",
                    "t", "a", " ", "L", "i", "m", "i", "t",
                    " ", "R", "e", "a", "c", "h", "e", "d",
                    " ", "(", "E", "r", "r", "o", "r", " ",
                    "4", "2", "9", ")", ".", " ", "P", "l",
                    "e", "a", "s", "e", " ", "w", "a", "i",
                    "t", " ", "a", " ", "m", "o", "m", "e",
                    "n", "t", " ", "o", "r", " ", "c", "h",
                    "e", "c", "k", " ", "y", "o", "u", "r",
                    " ", "G", "o", "o", "g", "l", "e", " ",
                    "A", "I", " ", "b", "i", "l", "l", "i",
                    "n", "g", " ", "d", "e", "t", "a", "i",
                    "l", "s", "." >>,
     json |-> EmptyObjectText]

(***************************************************************************)
(* JSON.parse (line 240).  Whether a text parses is settled by the JSON    *)
(* grammar; the message of the SyntaxError is the engine's, and the outer  *)
(* catch reads it.  The messages are those of V8, the engine of Chrome and *)
(* of Node, in three generations: the oldest (up to V8 10.2, Node 18)      *)
(* names the token at the cursor and its position; the next (V8 11.3,      *)
(* Node 20) names the failure and its position, or quotes the token and    *)
(* the text around it; the newest (V8 12.4, Node 22) adds the line and the *)
(* column to the position.  The scan follows V8's parser: the first        *)
(* failure is the one reported, at the offset of the cursor.  Not every    *)
(* failure has a name: where the parser reports the code unit at the       *)
(* cursor, the failure is UnexpectedToken and the message is the one for   *)
(* that token.                                                             *)
(***************************************************************************)
Engines == { "V8 token", "V8 failure", "V8 line and column" }

\* the code unit at offset p of the text t, "" at the end of the text
CharAt(t, p) == IF p < Len(t) THEN t[p + 1] ELSE ""

\* space, tab, line feed, carriage return
Whitespace == { " ", "U+0009", "U+000A", "U+000D" }

DecimalDigits == << "0", "1", "2", "3", "4", "5", "6", "7", "8", "9" >>

IsDecimalDigit(c) == \E i \in 1..10 : DecimalDigits[i] = c

\* the code units below U+0020
ControlCharacters ==
    { "U+0000", "U+0001", "U+0002", "U+0003", "U+0004", "U+0005", "U+0006",
      "U+0007", "U+0008", "U+0009", "U+000A", "U+000B", "U+000C", "U+000D",
      "U+000E", "U+000F", "U+0010", "U+0011", "U+0012", "U+0013", "U+0014",
      "U+0015", "U+0016", "U+0017", "U+0018", "U+0019", "U+001A", "U+001B",
      "U+001C", "U+001D", "U+001E", "U+001F" }

\* the code units from U+007F to U+00FF
Latin1Supplement ==
    { "U+007F", "U+0080", "U+0081", "U+0082", "U+0083", "U+0084", "U+0085",
      "U+0086", "U+0087", "U+0088", "U+0089", "U+008A", "U+008B", "U+008C",
      "U+008D", "U+008E", "U+008F", "U+0090", "U+0091", "U+0092", "U+0093",
      "U+0094", "U+0095", "U+0096", "U+0097", "U+0098", "U+0099", "U+009A",
      "U+009B", "U+009C", "U+009D", "U+009E", "U+009F", "U+00A0", "U+00A1",
      "U+00A2", "U+00A3", "U+00A4", "U+00A5", "U+00A6", "U+00A7", "U+00A8",
      "U+00A9", "U+00AA", "U+00AB", "U+00AC", "U+00AD", "U+00AE", "U+00AF",
      "U+00B0", "U+00B1", "U+00B2", "U+00B3", "U+00B4", "U+00B5", "U+00B6",
      "U+00B7", "U+00B8", "U+00B9", "U+00BA", "U+00BB", "U+00BC", "U+00BD",
      "U+00BE", "U+00BF", "U+00C0", "U+00C1", "U+00C2", "U+00C3", "U+00C4",
      "U+00C5", "U+00C6", "U+00C7", "U+00C8", "U+00C9", "U+00CA", "U+00CB",
      "U+00CC", "U+00CD", "U+00CE", "U+00CF", "U+00D0", "U+00D1", "U+00D2",
      "U+00D3", "U+00D4", "U+00D5", "U+00D6", "U+00D7", "U+00D8", "U+00D9",
      "U+00DA", "U+00DB", "U+00DC", "U+00DD", "U+00DE", "U+00DF", "U+00E0",
      "U+00E1", "U+00E2", "U+00E3", "U+00E4", "U+00E5", "U+00E6", "U+00E7",
      "U+00E8", "U+00E9", "U+00EA", "U+00EB", "U+00EC", "U+00ED", "U+00EE",
      "U+00EF", "U+00F0", "U+00F1", "U+00F2", "U+00F3", "U+00F4", "U+00F5",
      "U+00F6", "U+00F7", "U+00F8", "U+00F9", "U+00FA", "U+00FB", "U+00FC",
      "U+00FD", "U+00FE", "U+00FF" }

\* a code unit up to U+00FF: a printable ASCII character stands for itself
IsLatin1(c) ==
    Len(c) = 1 \/ c \in ControlCharacters \/ c \in Latin1Supplement

\* the token a code unit starts
JsonToken(c) ==
    CASE c = "" -> "EOS"
      [] c = "\"" -> "STRING"
      [] c = "-" \/ IsDecimalDigit(c) -> "NUMBER"
      [] c \in Whitespace -> "WHITESPACE"
      [] c = "{" -> "LBRACE"
      [] c = "}" -> "RBRACE"
      [] c = "[" -> "LBRACK"
      [] c = "]" -> "RBRACK"
      [] c = ":" -> "COLON"
      [] c = "," -> "COMMA"
      [] c = "t" -> "TRUE_LITERAL"
      [] c = "f" -> "FALSE_LITERAL"
      [] c = "n" -> "NULL_LITERAL"
      [] OTHER -> "ILLEGAL"

\* the scan failed with the cursor at offset at
Fail(kind, at) == [ok |-> FALSE, at |-> at, kind |-> kind]

\* the scan consumed the text up to offset next
Consumed(next) == [ok |-> TRUE, at |-> next, kind |-> "none"]

\* the first offset from p on that holds no code unit of the set units
SkipWhile(t, p, units) ==
    CHOOSE q \in p..Len(t) :
        /\ CharAt(t, q) \notin units
        /\ \A r \in p..(q - 1) : t[r + 1] \in units

SkipWhitespace(t, p) == SkipWhile(t, p, Whitespace)

AdvanceWhileDigit(t, p) == SkipWhile(t, p, { DecimalDigits[i] : i \in 1..10 })

RECURSIVE ScanJsonString(_, _)
\* a string whose opening quote ends at offset p: the scan stops at the
\* first quote, backslash or control character.  After a backslash the end
\* of the text or a code unit above U+00FF is reported as the token at the
\* cursor, any other code unit that is no escape as a bad escaped character
ScanJsonString(t, p) ==
    LET stops == { "\"", "\\" } \cup ControlCharacters
        q == CHOOSE q \in p..Len(t) :
                /\ q = Len(t) \/ t[q + 1] \in stops
                /\ \A r \in p..(q - 1) : t[r + 1] \notin stops
        c == CharAt(t, q)
        e == CharAt(t, q + 1)
        IsHex(h) ==
            \/ IsDecimalDigit(h)
            \/ h \in { "a", "b", "c", "d", "e", "f",
                        "A", "B", "C", "D", "E", "F" }
    IN  IF q = Len(t) THEN Fail("UnterminatedString", q)
        ELSE IF c = "\"" THEN Consumed(q + 1)
        ELSE IF c # "\\" THEN Fail("BadControlCharacter", q)
        ELSE IF ~IsLatin1(e) THEN Fail("UnexpectedToken", q + 1)
        ELSE IF e \in { "\"", "\\", "/", "b", "f", "n", "r", "t" }
             THEN ScanJsonString(t, q + 2)
        ELSE IF e # "u" THEN Fail("BadEscapedCharacter", q + 1)
        ELSE IF \E i \in 2..5 : ~IsHex(CharAt(t, q + i))
             THEN Fail("BadUnicodeEscape",
                       q + (CHOOSE i \in 2..5 :
                              /\ ~IsHex(CharAt(t, q + i))
                              /\ \A j \in 2..(i - 1) :
                                    IsHex(CharAt(t, q + j))))
        ELSE ScanJsonString(t, q + 6)

\* a number that starts at offset p with a minus sign or a digit: the
\* integer part, then a fraction and an exponent if there are any
ParseJsonNumber(t, p) ==
    LET first == IF CharAt(t, p) = "-" THEN p + 1 ELSE p
        ScanExponent(q) ==
            IF CharAt(t, q) \in { "e", "E" }
            THEN LET s == IF CharAt(t, q + 1) \in { "-", "+" }
                          THEN q + 2 ELSE q + 1
                 IN  IF IsDecimalDigit(CharAt(t, s))
                     THEN Consumed(AdvanceWhileDigit(t, s))
                     ELSE Fail("ExponentPartMissingNumber", s)
            ELSE Consumed(q)
        ScanFraction(q) ==
            IF CharAt(t, q) = "."
            THEN IF IsDecimalDigit(CharAt(t, q + 1))
                 THEN ScanExponent(AdvanceWhileDigit(t, q + 1))
                 ELSE Fail("UnterminatedFractionalNumber", q + 1)
            ELSE ScanExponent(q)
    IN  IF CharAt(t, first) = "0"
        THEN IF IsDecimalDigit(CharAt(t, first + 1))
             THEN Fail("UnexpectedToken", first + 1)
             ELSE ScanFraction(first + 1)
        ELSE IF IsDecimalDigit(CharAt(t, first))
             THEN ScanFraction(AdvanceWhileDigit(t, first))
             ELSE Fail("NoNumberAfterMinusSign", first)

\* true, false or null at offset p, whose first code unit has been seen
ScanLiteral(t, p, word) ==
    IF p + Len(word) <= Len(t) /\ SubSeq(t, p + 1, p + Len(word)) = word
    THEN Consumed(p + Len(word))
    ELSE Fail("UnexpectedToken",
              p + (CHOOSE k \in 1..(Len(word) - 1) :
                     /\ CharAt(t, p + k) # word[k + 1]
                     /\ \A j \in 1..(k - 1) : CharAt(t, p + j) = word[j + 1]))

RECURSIVE ParseJsonValue(_, _, _)
RECURSIVE ParseProperties(_, _, _, _)
RECURSIVE ParseElements(_, _, _)

\* a value that starts at or after offset p
ParseJsonValue(t, p, engine) ==
    LET q     == SkipWhitespace(t, p)
        token == JsonToken(CharAt(t, q))
        inner == SkipWhitespace(t, q + 1)
    IN  CASE token = "STRING" -> ScanJsonString(t, q + 1)
          [] token = "NUMBER" -> ParseJsonNumber(t, q)
          [] token = "LBRACE" ->
                IF CharAt(t, inner) = "}" THEN Consumed(inner + 1)
                ELSE ParseProperties(t, inner, TRUE, engine)
          [] token = "LBRACK" ->
                IF CharAt(t, inner) = "]" THEN Consumed(inner + 1)
                ELSE ParseElements(t, inner, engine)
          [] token = "TRUE_LITERAL" ->
                ScanLiteral(t, q, << "t", "r", "u", "e" >>)
          [] token = "FALSE_LITERAL" ->
                ScanLiteral(t, q, << "f", "a", "l", "s", "e" >>)
          [] token = "NULL_LITERAL" ->
                ScanLiteral(t, q, << "n", "u", "l", "l" >>)
          [] OTHER -> Fail("UnexpectedToken", q)

\* the properties of an object from offset p, where a property name is due,
\* the first one of the object or a later one.  A name that is missing has
\* its own failure in either place.  A colon that is missing has one after
\* the first name; after a later name the newest generation reports it so
\* too, the older ones report the token at the cursor
ParseProperties(t, p, first, engine) ==
    IF CharAt(t, p) # "\""
    THEN Fail(IF first THEN "ExpectedPropNameOrRBrace"
              ELSE "ExpectedDoubleQuotedPropertyName", p)
    ELSE LET key == ScanJsonString(t, p + 1)
         IN  IF ~key.ok THEN key
             ELSE LET colon == SkipWhitespace(t, key.at)
                  IN  IF CharAt(t, colon) # ":"
                      THEN Fail(IF first \/ engine = "V8 line and column"
                                THEN "ExpectedColonAfterPropertyName"
                                ELSE "UnexpectedToken", colon)
                      ELSE LET value == ParseJsonValue(t, colon + 1, engine)
                           IN  IF ~value.ok THEN value
                               ELSE LET next == SkipWhitespace(t, value.at)
                                    IN  IF CharAt(t, next) = ","
                                        THEN ParseProperties(
                                          t, SkipWhitespace(t, next + 1),
                                          FALSE, engine)
                                        ELSE IF CharAt(t, next) = "}"
                                        THEN Consumed(next + 1)
                                        ELSE Fail("ExpectedCommaOrRBrace",
                                                  next)

\* the elements of an array from offset p, where a value is due
ParseElements(t, p, engine) ==
    LET value == ParseJsonValue(t, p, engine)
    IN  IF ~value.ok THEN value
        ELSE LET next == SkipWhitespace(t, value.at)
             IN  IF CharAt(t, next) = ","
                 THEN ParseElements(t, next + 1, engine)
                 ELSE IF CharAt(t, next) = "]" THEN Consumed(next + 1)
                 ELSE Fail("ExpectedCommaOrRBrack", next)

\* JSON.parse(t): one value and nothing but whitespace after it
JsonParse(t, engine) ==
    LET value == ParseJsonValue(t, 0, engine)
    IN  IF ~value.ok THEN value
        ELSE IF SkipWhitespace(t, value.at) = Len(t) THEN value
        ELSE Fail("UnexpectedNonWhiteSpaceCharacter",
                  SkipWhitespace(t, value.at))

RECURSIVE DecimalText(_)
\* the decimal digits of n >= 0
DecimalText(n) ==
    IF n < 10 THEN << DecimalDigits[n + 1] >>
    ELSE DecimalText(n \div 10) \o << DecimalDigits[(n % 10) + 1] >>

\* " at position 7", with " (line 1 column 8)" when the engine adds it: a
\* line ends at a line feed, or at a carriage return that no line feed
\* before the position follows
Position(t, at, located) ==
    LET EndsLine(r) ==
            \/ t[r + 1] = "U+000A"
            \/ t[r + 1] = "U+000D" /\ ~(r + 1 < at /\ t[r + 2] = "U+000A")
        line   == 1 + Cardinality({ r \in 0..(at - 1) : EndsLine(r) })
        breaks == { r \in 0..(at - 1) : t[r + 1] \in { "U+000A", "U+000D" } }
        column == IF breaks = {} THEN at + 1
                  ELSE at - (CHOOSE r \in breaks : \A s \in breaks : s <= r)
    IN  << " ", "a", "t", " ", "p", "o", "s", "i", "t", "i", "o", "n", " " >>
            \o DecimalText(at)
            \o (IF located
                THEN << " ", "(", "l", "i", "n", "e", " " >>
                        \o DecimalText(line)
                        \o << " ", "c", "o", "l", "u", "m", "n", " " >>
                        \o DecimalText(column) \o << ")" >>
                ELSE << >>)

\* the newer message for a token that is not expected at offset at: the
\* texts [object Object], undefined, Infinity and NaN are named whole; of
\* another text the token is quoted and the text around it, all of a text
\* shorter than 21 code units, else ten code units to either side
UnexpectedTokenMessage(t, at, located) ==
    LET token   == JsonToken(CharAt(t, at))
        special == { << "[", "o", "b", "j", "e", "c", "t", " ", "O", "b", "j",
                        "e", "c", "t", "]" >>,
                     << "u", "n", "d", "e", "f", "i", "n", "e", "d" >>,
                     << "I", "n", "f", "i", "n", "i", "t", "y" >>,
                     << "N", "a", "N" >> }
        context ==
            IF Len(t) < 21 THEN << "\"" >> \o t \o << "\"" >>
            ELSE IF at < 10
            THEN << "\"" >> \o SubSeq(t, 1, at + 10)
                    \o << "\"", ".", ".", "." >>
            ELSE IF at < Len(t) - 10
            THEN << ".", ".", ".", "\"" >> \o SubSeq(t, at - 9, at + 10)
                    \o << "\"", ".", ".", "." >>
            ELSE << ".", ".", ".", "\"" >> \o SubSeq(t, at - 9, Len(t))
                    \o << "\"" >>
        invalid == << " ", "i", "s", " ", "n", "o", "t", " ", "v", "a", "l",
                      "i", "d", " ", "J", "S", "O", "N" >>
    IN  CASE token = "EOS" -> << "U", "n", "e", "x", "p", "e", "c", "t", "e",
                                 "d", " ", "e",
                                 "n", "d", " ",
                                 "o", "f", " ",
                                 "J", "S", "O",
                                 "N", " ", "i",
                                 "n", "p", "u",
                                 "t" >>
          [] token = "NUMBER" ->
                << "U", "n", "e", "x", "p", "e", "c", "t", "e", "d", " ", "n",
                   "u", "m", "b", "e", "r", " ", "i", "n",
                   " ", "J", "S", "O", "N" >>
                    \o Position(t, at, located)
          [] token = "STRING" ->
                << "U", "n", "e", "x", "p", "e", "c", "t", "e", "d", " ", "s",
                   "t", "r", "i", "n", "g", " ", "i", "n",
                   " ", "J", "S", "O", "N" >>
                    \o Position(t, at, located)
          [] OTHER ->
                IF t \in special
                THEN << "\"" >> \o t \o << "\"" >> \o invalid
                ELSE << "U", "n", "e", "x", "p", "e", "c", "t", "e", "d", " ",
                        "t", "o", "k", "e", "n", " ",
                        "'" >>
                        \o << CharAt(t, at), "'", ",", " " >>
                        \o context \o invalid

\* the name the newer messages give a failure
FailureText(kind) ==
    CASE kind = "UnterminatedString" ->
            << "U", "n", "t", "e", "r", "m", "i", "n", "a", "t", "e", "d",
               " ", "s", "t", "r", "i", "n", "g", " ", "i", "n",
               " ", "J", "S", "O", "N" >>
      [] kind = "BadControlCharacter" ->
            << "B", "a", "d", " ", "c", "o", "n", "t", "r", "o", "l", " ",
               "c", "h", "a", "r", "a", "c", "t", "e", "r", " ",
               "i", "n", " ", "s", "t", "r", "i", "n", "g", " ",
               "l", "i", "t", "e", "r", "a", "l", " ", "i", "n",
               " ", "J", "S", "O", "N" >>
      [] kind = "BadEscapedCharacter" ->
            << "B", "a", "d", " ", "e", "s", "c", "a", "p", "e", "d", " ",
               "c", "h", "a", "r", "a", "c", "t", "e", "r", " ",
               "i", "n", " ", "J", "S", "O", "N" >>
      [] kind = "BadUnicodeEscape" ->
            << "B", "a", "d", " ", "U", "n", "i", "c", "o", "d", "e", " ",
               "e", "s", "c", "a", "p", "e", " ", "i", "n", " ",
               "J", "S", "O", "N" >>
      [] kind = "NoNumberAfterMinusSign" ->
            << "N", "o", " ", "n", "u", "m", "b", "e", "r", " ", "a", "f",
               "t", "e", "r", " ", "m", "i", "n", "u", "s", " ",
               "s", "i", "g", "n", " ", "i", "n", " ", "J", "S",
               "O", "N" >>
      [] kind = "UnterminatedFractionalNumber" ->
            << "U", "n", "t", "e", "r", "m", "i", "n", "a", "t", "e", "d",
               " ", "f", "r", "a", "c", "t", "i", "o", "n", "a",
               "l", " ", "n", "u", "m", "b", "e", "r", " ", "i",
               "n", " ", "J", "S", "O", "N" >>
      [] kind = "ExponentPartMissingNumber" ->
            << "E", "x", "p", "o", "n", "e", "n", "t", " ", "p", "a", "r",
               "t", " ", "i", "s", " ", "m", "i", "s", "s", "i",
               "n", "g", " ", "a", " ", "n", "u", "m", "b", "e",
               "r", " ", "i", "n", " ", "J", "S", "O", "N" >>
      [] kind = "ExpectedPropNameOrRBrace" ->
            << "E", "x", "p", "e", "c", "t", "e", "d", " ", "p", "r", "o",
               "p", "e", "r", "t", "y", " ", "n", "a", "m", "e",
               " ", "o", "r", " ", "'", "}", "'", " ", "i", "n",
               " ", "J", "S", "O", "N" >>
      [] kind = "ExpectedDoubleQuotedPropertyName" ->
            << "E", "x", "p", "e", "c", "t", "e", "d", " ", "d", "o", "u",
               "b", "l", "e", "-", "q", "u", "o", "t", "e", "d",
               " ", "p", "r", "o", "p", "e", "r", "t", "y", " ",
               "n", "a", "m", "e", " ", "i", "n", " ", "J", "S",
               "O", "N" >>
      [] kind = "ExpectedColonAfterPropertyName" ->
            << "E", "x", "p", "e", "c", "t", "e", "d", " ", "'", ":", "'",
               " ", "a", "f", "t", "e", "r", " ", "p", "r", "o",
               "p", "e", "r", "t", "y", " ", "n", "a", "m", "e",
               " ", "i", "n", " ", "J", "S", "O", "N" >>
      [] kind = "ExpectedCommaOrRBrace" ->
            << "E", "x", "p", "e", "c", "t", "e", "d", " ", "'", ",", "'",
               " ", "o", "r", " ", "'", "}", "'", " ", "a", "f",
               "t", "e", "r", " ", "p", "r", "o", "p", "e", "r",
               "t", "y", " ", "v", "a", "l", "u", "e", " ", "i",
               "n", " ", "J", "S", "O", "N" >>
      [] kind = "ExpectedCommaOrRBrack" ->
            << "E", "x", "p", "e", "c", "t", "e", "d", " ", "'", ",", "'",
               " ", "o", "r", " ", "'", "]", "'", " ", "a", "f",
               "t", "e", "r", " ", "a", "r", "r", "a", "y", " ",
               "e", "l", "e", "m", "e", "n", "t", " ", "i", "n",
               " ", "J", "S", "O", "N" >>
      [] kind = "UnexpectedNonWhiteSpaceCharacter" ->
            << "U", "n", "e", "x", "p", "e", "c", "t", "e", "d", " ", "n",
               "o", "n", "-", "w", "h", "i", "t", "e", "s", "p",
               "a", "c", "e", " ", "c", "h", "a", "r", "a", "c",
               "t", "e", "r", " ", "a", "f", "t", "e", "r", " ",
               "J", "S", "O", "N" >>

\* the message of the oldest generation: the token at the cursor and its
\* position
TokenMessage(t, at) ==
    LET token == JsonToken(CharAt(t, at))
    IN  CASE token = "EOS" -> << "U", "n", "e", "x", "p", "e", "c", "t", "e",
                                 "d", " ", "e",
                                 "n", "d", " ",
                                 "o", "f", " ",
                                 "J", "S", "O",
                                 "N", " ", "i",
                                 "n", "p", "u",
                                 "t" >>
          [] token = "NUMBER" ->
                << "U", "n", "e", "x", "p", "e", "c", "t", "e", "d", " ", "n",
                   "u", "m", "b", "e", "r", " ", "i", "n",
                   " ", "J", "S", "O", "N" >>
                    \o Position(t, at, FALSE)
          [] token = "STRING" ->
                << "U", "n", "e", "x", "p", "e", "c", "t", "e", "d", " ", "s",
                   "t", "r", "i", "n", "g", " ", "i", "n",
                   " ", "J", "S", "O", "N" >>
                    \o Position(t, at, FALSE)
          [] OTHER ->
                << "U", "n", "e", "x", "p", "e", "c", "t", "e", "d", " ", "t",
                   "o", "k", "e", "n", " " >> \o << CharAt(t, at) >>
                    \o << " ", "i", "n", " ", "J", "S", "O", "N" >>
                    \o Position(t, at, FALSE)

\* the message of the SyntaxError for the failure f of the text t
SyntaxErrorMessage(t, f, engine) ==
    IF engine = "V8 token" THEN TokenMessage(t, f.at)
    ELSE IF f.kind = "UnexpectedToken"
    THEN UnexpectedTokenMessage(t, f.at, engine = "V8 line and column")
    ELSE FailureText(f.kind)
            \o Position(t, f.at, engine = "V8 line and column")

\* the SyntaxError JSON.parse throws on a text that does not parse
\*                                                           (line 240)
SyntaxErrorOf(text, engine) ==
    [message |-> SyntaxErrorMessage(text, JsonParse(text, engine), engine),
     json |-> EmptyObjectText]

\* the values generate rejects with: errors with the messages
\* "got status 429", "RESOURCE_EXHAUSTED", "exceeded quota",
\* "current quota, retry" (the mark followed by a comma), "status 4290"
\* (the mark inside a longer number), "fetch failed", "status 503", and
\* plain objects without a message, {"code":429} and {"code":500}
ThrownErrors ==
    { [message |-> << "g", "o", "t", " ", "s", "t", "a", "t", "u", "s", " ",
                      "4", "2", "9" >>,
       json |-> EmptyObjectText],
      [message |-> << "R", "E", "S", "O", "U", "R", "C", "E", "_", "E", "X",
                      "H", "A", "U", "S", "T", "E", "D" >>,
       json |-> EmptyObjectText],
      [message |-> << "e", "x", "c", "e", "e", "d", "e", "d", " ", "q", "u",
                      "o", "t", "a" >>,
       json |-> EmptyObjectText],
      [message |-> << "c", "u", "r", "r", "e", "n", "t", " ", "q", "u", "o",
                      "t", "a", ",", " ", "r", "e", "t", "r", "y" >>,
       json |-> EmptyObjectText],
      [message |-> << "s", "t", "a", "t", "u", "s", " ", "4", "2", "9", "0" >>,
       json |-> EmptyObjectText],
      [message |-> << "f", "e", "t", "c", "h", " ", "f", "a", "i", "l", "e",
                      "d" >>,
       json |-> EmptyObjectText],
      [message |-> << "s", "t", "a", "t", "u", "s", " ", "5", "0", "3" >>,
       json |-> EmptyObjectText],
      [message |-> << >>,
       json |-> << "{", "\"", "c", "o", "d", "e", "\"", ":", "4", "2", "9",
                  "}" >>],
      [message |-> << >>,
       json |-> << "{", "\"", "c", "o", "d", "e", "\"", ":", "5", "0", "0",
                  "}" >>] }

\* the values of response.text: empty or undefined, the JSON of a report
\* (here the status alone: "MATCH", "MISMATCH", "WARNING"), and text
\* JSON.parse rejects: Sorry, quota exceeded, Error 429, a report cut off
\* inside a string after 429 code units, {"reasoning":"xxx, the same report
\* cut off after a backslash at offset 429, and a report cut off after the
\* name of its second property, 429 code units, {"status":"MATCH","xxx"
ResponseTexts ==
    { << >>,
      << "\"", "M", "A", "T", "C", "H", "\"" >>,
      << "\"", "M", "I", "S", "M", "A", "T", "C", "H", "\"" >>,
      << "\"", "W", "A", "R", "N", "I", "N", "G", "\"" >>,
      << "S", "o", "r", "r", "y" >>,
      << "q", "u", "o", "t", "a", " ", "e", "x", "c", "e", "e", "d", "e",
         "d" >>,
      << "E", "r", "r", "o", "r", " ", "4", "2", "9" >>,
      [i \in 1..429 |->
          IF i <= 14
          THEN << "{", "\"", "r", "e", "a", "s", "o", "n", "i", "n", "g",
                  "\"", ":", "\"" >>[i]
          ELSE "x"],
      [i \in 1..430 |->
          IF i <= 14
          THEN << "{", "\"", "r", "e", "a", "s", "o", "n", "i", "n", "g",
                  "\"", ":", "\"" >>[i]
          ELSE IF i = 430 THEN "\\" ELSE "x"],
      [i \in 1..429 |->
          IF i <= 19
          THEN << "{", "\"", "s", "t", "a", "t", "u", "s", "\"", ":", "\"",
                  "M", "A", "T", "C", "H", "\"", ",", "\"" >>[i]
          ELSE IF i = 429 THEN "\"" ELSE "x"] }

\* how a generate call settles
Responses ==
    [ok : {TRUE}, text : ResponseTexts, error : {NoError}]
        \cup [ok : {FALSE}, text : {<< >>}, error : ThrownErrors]

Returns(report) == [returns |-> TRUE, report |-> report, error |-> NoError]

Throws(err) == [returns |-> FALSE, report |-> << >>, error |-> err]

\* the outer catch                                            (lines 245-254)
OuterCatch(err) ==
    IF IsQuotaError(err) THEN Throws(QuotaLimitError) ELSE Throws(err)

\* what follows a fulfilled generate call: the report is the value of the
\* text, kept as the text it is parsed from                   (lines 239-244)
AfterGenerate(response, engine) ==
    IF response.text # << >>
    THEN IF JsonParse(response.text, engine).ok
         THEN Returns(response.text)
         ELSE OuterCatch(SyntaxErrorOf(response.text, engine))
    ELSE OuterCatch(NoTextError)

\* performAudit is called: the key check, then the primary attempt
\*                                                           (lines 85-227)
PerformAudit(hasKey) ==
    /\ svcPc = "idle"
    /\ IF hasKey
       THEN /\ svcPc' = "primary"
            /\ svcCalls' = << PrimaryModel >>
            /\ UNCHANGED svcOutcome
       ELSE /\ svcPc' = "done"
            /\ svcOutcome' = << Throws(MissingKeyError) >>
            /\ UNCHANGED svcCalls
    /\ UNCHANGED svcResponses
    /\ UNCHANGED <<gateVars, appVars, mounted, mailVars>>

\* the primary generate call settles                         (lines 225-244)
PrimarySettles(response, engine) ==
    /\ svcPc = "primary"
    /\ svcResponses' = Append(svcResponses, response)
    /\ IF response.ok
       THEN /\ svcPc' = "done"
            /\ svcOutcome' = << AfterGenerate(response, engine) >>
            /\ UNCHANGED svcCalls
       ELSE IF IsQuotaError(response.error)
            THEN /\ svcPc' = "fallback"
                 /\ svcCalls' = Append(svcCalls, FallbackModel)
                 /\ UNCHANGED svcOutcome
            ELSE /\ svcPc' = "done"
                 /\ svcOutcome' = << OuterCatch(response.error) >>
                 /\ UNCHANGED svcCalls
    /\ UNCHANGED <<gateVars, appVars, mounted, mailVars>>

\* the fallback generate call settles                        (lines 232-254)
FallbackSettles(response, engine) ==
    /\ svcPc = "fallback"
    /\ svcResponses' = Append(svcResponses, response)
    /\ svcPc' = "done"
    /\ svcOutcome' =
          << IF response.ok THEN AfterGenerate(response, engine)
             ELSE OuterCatch(response.error) >>
    /\ UNCHANGED svcCalls
    /\ UNCHANGED <<gateVars, appVars, mounted, mailVars>>

SvcInit == GateIdle /\ AppMounted /\ SvcIdle /\ MailIdle

SvcNext ==
    \/ \E hasKey \in BOOLEAN : PerformAudit(hasKey)
    \/ \E response \in Responses, engine \in Engines :
          PrimarySettles(response, engine)
    \/ \E response \in Responses, engine \in Engines :
          FallbackSettles(response, engine)

SvcSpec == SvcInit /\ [][SvcNext]_vars

(***************************************************************************)
(* Definitions used to state the properties                                *)
(***************************************************************************)
IsVerdict(v) ==
    /\ DOMAIN v = {"isBlurry", "score"}
    /\ v.isBlurry \in BOOLEAN
    /\ v.score \in Int

\* the load handler ran with a context and without a platform failure of
\* its own
CleanLoad == Settled /\ path # "error" /\ env.ctxOK /\ ~env.platformThrows

\* the Laplacian loop ran to its end
LoopRan == Settled /\ path \in {"insufficient", "scored"}

Values(s) == { s[i] : i \in 1..Len(s) }
CountEq(s, v) == Cardinality({ i \in 1..Len(s) : s[i] = v })

\* the luminance getGray computes for the cell at column x, row y of the
\* grid read back
LumaAt(x, y) ==
    LET i == (y * gridW + x) * 4
    IN  DAdd(DAdd(DTimes(WeightR, data[i]), DTimes(WeightG, data[i + 1])),
             DTimes(WeightB, data[i + 2]))

\* |4*center - top - bottom - left - right| as the handler computes it
MagnitudeAt(x, y) ==
    LET v == DSub(DSub(DSub(DSub(DTimes(LumaAt(x, y), 4), LumaAt(x, y - 1)),
                            LumaAt(x, y + 1)),
                       LumaAt(x - 1, y)),
                  LumaAt(x + 1, y))
    IN  [neg |-> FALSE, m |-> v.m]

InteriorCells == (1..(gridW - 2)) \X (1..(gridH - 2))

(***************************************************************************)
(* Properties                                                              *)
(***************************************************************************)
\* C1: checkImageBlurry always settles with a verdict and never throws to its
\* caller: whichever event fires and whichever branch the load handler takes
\* (scored, too few edges, no 2D context, exception inside the try block),
\* resolve has been called exactly once, with a value of shape
\* {isBlurry, score}, and no exception has left the handler; before the event
\* nothing is resolved.
C1_SettlesExactlyOnce ==
    /\ ~escaped
    /\ Len(resolves) <= 1
    /\ Settled => /\ path \in {"scored", "insufficient", "noctx",
                               "exception", "error"}
                  /\ Len(resolves) = 1
                  /\ IsVerdict(resolves[1])

C1_Witness ==
    /\ Settled
    /\ path = "exception"
    /\ env.platformThrows
    /\ Len(resolves) = 1

\* C2: when the image error event fires, the verdict is the fail-open sentinel
\* {isBlurry: false, score: 999}.
C2_DecodeFailureSentinel ==
    (Settled /\ path = "error") => TheVerdict = Verdict(FALSE, 999)

\* C3: when an exception other than a decode failure is raised during the
\* computation (or no 2D context is available), the verdict is the same
\* fail-open sentinel as for a decode failure, {isBlurry: false, score: 999}.
C3_ProcessingErrorSentinel ==
    (Settled /\ path \in {"exception", "noctx"})
        => TheVerdict = Verdict(FALSE, 999)

\* C4: whenever the Laplacian loop leaves fewer than 100 samples the verdict is
\* exactly {isBlurry: true, score: 0} and the sort and the mean are not
\* computed; with 100 samples or more the statistic is computed.
C4_InsufficientContent ==
    LoopRan =>
        /\ Len(edgeStrengths) < 100 =>
              /\ TheVerdict = Verdict(TRUE, 0)
              /\ path = "insufficient"
              /\ ~statComputed
              /\ sampleSize = 0
        /\ Len(edgeStrengths) >= 100 =>
              /\ path = "scored"
              /\ statComputed
              /\ sampleSize >= 20

C4_Witness ==
    /\ LoopRan
    /\ Len(edgeStrengths) = 99
    /\ TheVerdict = Verdict(TRUE, 0)
    /\ \E i \in 1..98 : DLess(edgeStrengths[i], edgeStrengths[i + 1])

\* C5: for every sample set of size n >= 100 the verdict is
\* {isBlurry: s < 40, score: s} with s = floor(mean of the k largest samples)
\* and k = floor(n * 0.2) >= 20; the array is left in descending order.
\* The k largest samples are the first k of the descending array, and
\* their mean is the one the handler's arithmetic gives: the samples added
\* in that order, divided by k.
C5_TopQuintileScore ==
    (LoopRan /\ Len(edgeStrengths) >= 100) =>
        LET n == Len(edgeStrengths)
            k == n \div 5
            s == DFloor(SumSeq(SubSeq(edgeStrengths, 1, k))) \div k
        IN  /\ k >= 20
            /\ sampleSize = k
            /\ \A i \in 1..(n - 1) :
                  ~DLess(edgeStrengths[i], edgeStrengths[i + 1])
            /\ TheVerdict = [isBlurry |-> s < 40, score |-> s]

C5_Witness ==
    /\ path = "scored"
    /\ Len(edgeStrengths) = 101
    /\ sampleSize = 20
    /\ DLess(edgeStrengths[20], edgeStrengths[1])
    /\ edgeStrengths[20] = edgeStrengths[21]
    /\ TheVerdict.score >= 40

\* C6: every verdict checkImageBlurry returns, on any path, satisfies
\* isBlurry = (score < 40).
C6_BlurryIffBelowThreshold ==
    Settled => (TheVerdict.isBlurry <=> (TheVerdict.score < 40))

\* C7: the sample collection holds exactly one entry for each interior cell
\* (1 <= x <= w-2, 1 <= y <= h-2) whose magnitude
\* |4*center - top - bottom - left - right| is strictly above 15, and nothing
\* else; a grid whose interior magnitudes are all at or below 15 yields no
\* sample.
C7_SamplesAreGatedInteriorCells ==
    LoopRan =>
        LET lapAt == [c \in InteriorCells |-> MagnitudeAt(c[1], c[2])]
            kept  == { c \in InteriorCells : DLess(DInt(15), lapAt[c]) }
        IN  /\ Len(edgeStrengths) = Cardinality(kept)
            /\ \A v \in Values(edgeStrengths) \cup { lapAt[c] : c \in kept } :
                  CountEq(edgeStrengths, v)
                      = Cardinality({ c \in kept : lapAt[c] = v })
            /\ (\A c \in InteriorCells : ~DLess(DInt(15), lapAt[c]))
                  => edgeStrengths = << >>

C7_Witness ==
    /\ LoopRan
    /\ gridH = 4
    /\ MagnitudeAt(1, 1) = DInt(60)
    /\ MagnitudeAt(2, 1) = DInt(15)
    /\ MagnitudeAt(1, 2) = DInt(15)
    /\ Len(edgeStrengths) = 100

\* C8: for every source image whose analysis grid has w < 3 or h < 3 after
\* scaling (a scaled height of 0, 1 or 2), the load handler reads no byte
\* outside the pixel buffer, lets no exception out and returns the zero-sample
\* verdict {isBlurry: true, score: 0}.
C8_SmallGridZeroSamples ==
    (CleanLoad /\ (GridWidth(img) < 3 \/ GridHeight(img) < 3)) =>
        /\ ~escaped
        /\ \A n \in 1..NumInterior(gridW, gridH) :
              ReadIndexes(gridW, n) \subseteq DOMAIN data
        /\ edgeStrengths = << >>
        /\ TheVerdict = Verdict(TRUE, 0)

\* C9: w is 800 only when the source is at least 800 pixels wide, and for a
\* narrower source w is never larger than the source width.
C9_NoUpscaling ==
    pc = "resized" =>
        /\ gridW = 800 => img.width >= 800
        /\ img.width < 800 => gridW <= img.width

\* C10 (as stated): a 3000 x 4000 source is analysed on a grid of width 800
\* and height 1067.
C10_Grid800x1067 ==
    (pc = "resized" /\ img.width = 3000 /\ img.height = 4000) =>
        (gridW = 800 /\ gridH = 1067)

\* C10 (amended): a 3000 x 4000 source is analysed on a grid of width 800 and
\* height 1066, the height being h = Math.floor(originalHeight * (800 /
\* originalWidth)) in double arithmetic: the integer part of
\* originalHeight * 800 / originalWidth whenever that quotient is no
\* integer, and the quotient or one less when it is an integer (799 for a
\* 607 x 607 source).
C10_Grid800x1066 ==
    pc = "resized" =>
        /\ gridH * img.width <= img.height * 800
        /\ img.height * 800 <= (gridH + 1) * img.width
        /\ (img.height * 800) % img.width # 0
              => gridH = (img.height * 800) \div img.width
        /\ (img.width = 3000 /\ img.height = 4000)
              => (gridW = 800 /\ gridH = 1066)
        /\ (img.width = 607 /\ img.height = 607) => gridH = 799

C10_Witness ==
    /\ pc = "resized"
    /\ img.width = 3000
    /\ img.height = 4000
    /\ gridH = 1066


\* C11: the score of every verdict checkImageBlurry returns, on every path
\* including the error paths, is a non-negative integer.
C11_ScoreNonNegative ==
    Settled => TheVerdict.score \in Nat

\* the grid read back holds one colour only
UniformGrid ==
    \A p \in 0..(gridW * gridH - 1) :
        \A k \in 0..2 : data[4 * p + k] = data[k]

\* C13 (as stated): for every uniform image (all pixels the same colour,
\* black included) that decodes with h >= 1, every interior Laplacian
\* magnitude is 0, no sample qualifies and the verdict is
\* {isBlurry: true, score: 0}.
C13_UniformImageIsBlurry ==
    (CleanLoad /\ GridHeight(img) >= 1 /\ path # "exception" /\ UniformGrid) =>
        /\ \A c \in InteriorCells : MagnitudeAt(c[1], c[2]) = DZero
        /\ edgeStrengths = << >>
        /\ Len(edgeStrengths) < 100
        /\ TheVerdict = Verdict(TRUE, 0)

\* C13 (amended): for every uniform image that decodes with h >= 1, every
\* interior Laplacian magnitude is 0 or a rounding residue of the double
\* arithmetic far below the noise gate (below 1), no sample qualifies and
\* the verdict is {isBlurry: true, score: 0}.
C13_UniformImageHasNoSample ==
    (CleanLoad /\ GridHeight(img) >= 1 /\ path # "exception" /\ UniformGrid) =>
        /\ \A c \in InteriorCells : DLess(MagnitudeAt(c[1], c[2]), DInt(1))
        /\ edgeStrengths = << >>
        /\ Len(edgeStrengths) < 100
        /\ TheVerdict = Verdict(TRUE, 0)

C13_Witness ==
    /\ CleanLoad
    /\ gridH = 4
    /\ UniformGrid
    /\ data[0] = 4
    /\ MagnitudeAt(1, 1) # DZero
    /\ TheVerdict = Verdict(TRUE, 0)

\* the grid read back alternates between intensity 0 and intensity 255
CheckerboardGrid ==
    \A x \in 0..(gridW - 1), y \in 0..(gridH - 1) :
        \A k \in 0..2 :
            data[(y * gridW + x) * 4 + k] = (IF (x + y) % 2 = 0 THEN 255 ELSE 0)

\* C14: for a high-contrast checkerboard (alternating cells of intensity 0
\* and 255) at the analysis width with at least 100 interior cells, the
\* verdict has score > 40 and isBlurry = false.
C14_CheckerboardIsSharp ==
    (LoopRan /\ CheckerboardGrid /\ Cardinality(InteriorCells) >= 100) =>
        /\ TheVerdict.score > 40
        /\ TheVerdict.isBlurry = FALSE

C14_Witness ==
    /\ LoopRan
    /\ gridW = 800
    /\ gridH = 3
    /\ CheckerboardGrid
    /\ TheVerdict = Verdict(FALSE, 1020)


(***************************************************************************)
(* Definitions used to state the properties of the App                     *)
(***************************************************************************)
Runs == 1..MaxRuns

\* the verdict of run r has been handed to startPreCheck
HasVerdict(r) == verdictOf[r] # << >>

VerdictOfRun(r) == verdictOf[r][1]

\* the verdict of run r arrives in this step
VerdictArrives(r) == ~HasVerdict(r) /\ HasVerdict(r)'

\* the results the App holds: the one displayed, the history and its
\* localStorage copy
HeldResults ==
    { result[i] : i \in 1..Len(result) }
        \cup { history[i] : i \in 1..Len(history) }
        \cup { stored.list[i] : i \in 1..Len(stored.list) }

\* C15: in every run the performAudit request is issued only after the run's
\* blur verdict was produced, never while the run's check is still pending
C15_RequestAfterVerdict ==
    \A q \in requested :
        /\ HasVerdict(q.run)
        /\ \A c \in checks : c.run # q.run

C15_Witness ==
    /\ [run |-> 1, forced |-> FALSE] \in requested
    /\ VerdictOfRun(1) = Verdict(FALSE, 55)
    /\ \E c \in checks : c.run = 2

\* C16: when the verdict of a run is not blurry the audit request of the run
\* is issued in the same step, unforced, the blur modal is not opened, and
\* the result of a run with such a verdict carries no system note
C16_SharpVerdictStartsAudit ==
    [][ /\ \A r \in Runs :
            (VerdictArrives(r) /\ ~VerdictOfRun(r)'.isBlurry) =>
                /\ \E a \in audits' \ audits : a.run = r /\ ~a.forced
                /\ requested' = requested \cup { [run |-> r, forced |-> FALSE] }
                /\ isAnalyzing'
                /\ dynamicSteps' = Steps(FALSE)
                /\ showBlurModal' = showBlurModal
                /\ modalRun' = modalRun
                /\ blurScore' = blurScore
        /\ \A e \in HeldResults' :
            ~VerdictOfRun(e.run)'.isBlurry => e.notes = << >>
      ]_vars

C16_Witness ==
    /\ result = << [run |-> 1, notes |-> << >>] >>
    /\ VerdictOfRun(1) = Verdict(FALSE, 55)
    /\ ~showBlurModal
    /\ modalRun = 0

\* C17: when the verdict of a run is blurry the run halts: the modal opens
\* with that verdict's score against the threshold 40 and no request is
\* issued; a request for a run with a blurry verdict is issued only by Force
\* Proceed in the modal that run opened
C17_BlurryVerdictHalts ==
    [][ /\ \A r \in Runs :
            (VerdictArrives(r) /\ VerdictOfRun(r)'.isBlurry) =>
                /\ showBlurModal'
                /\ modalRun' = r
                /\ blurScore' = VerdictOfRun(r)'.score
                /\ blurScore' < ModalThreshold
                /\ ModalThreshold = BLUR_THRESHOLD
                /\ requested' = requested
                /\ audits' = audits
                /\ isAnalyzing' = isAnalyzing
        /\ \A q \in requested' \ requested :
            (HasVerdict(q.run)' /\ VerdictOfRun(q.run)'.isBlurry) =>
                /\ q.forced
                /\ HandleForceProceed
                /\ modalRun = q.run
      ]_vars

C17_Witness ==
    /\ showBlurModal
    /\ modalRun = 1
    /\ VerdictOfRun(1) = Verdict(TRUE, 36)
    /\ blurScore = 36
    /\ requested = {}

\* C18: Re-upload closes the modal, clears the document image, sets the
\* re-upload message, starts nothing and leaves the goods image, the result
\* and the history alone; no run starts while the document slot is empty
C18_RetakeClearsDocumentOnly ==
    [][ /\ HandleRetake =>
            /\ ~showBlurModal'
            /\ docImage' = 0
            /\ error' = "upload clearer"
            /\ requested' = requested
            /\ audits' = audits
            /\ checks' = checks
            /\ isAnalyzing' = isAnalyzing
            /\ goodsImage' = goodsImage
            /\ result' = result
            /\ history' = history
            /\ stored' = stored
            /\ ~StartAuditEnabled'
        /\ docImage = 0 => (nextRun' = nextRun /\ checks' \subseteq checks)
      ]_vars

C18_Witness ==
    /\ ~showBlurModal
    /\ modalRun = 1
    /\ docImage = 0
    /\ goodsImage # 0
    /\ error = "upload clearer"
    /\ requested = {}

\* C19: a held result carries the system note iff its request was issued by
\* Force Proceed, the note quotes the score of the blurry verdict of the
\* run that was overridden, and the history and its stored copy hold the
\* result with the same note
C19_NoteIffForced ==
    /\ \A e \in HeldResults :
        /\ e.notes # << >> <=> [run |-> e.run, forced |-> TRUE] \in requested
        /\ e.notes = << >> <=> [run |-> e.run, forced |-> FALSE] \in requested
        /\ e.notes # << >> =>
              /\ VerdictOfRun(e.run).isBlurry
              /\ e.notes = << VerdictOfRun(e.run).score >>
    /\ \A d \in HeldResults, e \in HeldResults : d.run = e.run => d = e
    /\ stored.list = history

C19_Witness ==
    /\ result = << [run |-> 1, notes |-> << 36 >>] >>
    /\ history = result
    /\ [run |-> 1, forced |-> TRUE] \in requested

\* C20: a blur check whose document image has meanwhile been removed from
\* its slot settles without opening the modal and without starting an audit
C20_AbandonedCheckHasNoEffect ==
    [][ \A c \in checks :
            (c \notin checks' /\ docImage # c.cl.doc) =>
                /\ showBlurModal' = showBlurModal
                /\ audits' = audits
                /\ requested' = requested
      ]_vars

(***************************************************************************)
(* Definitions used to state the properties of performAudit                *)
(***************************************************************************)
\* the generate call that settled with response r failed with a quota error
QuotaFailure(r) ==
    /\ ~r.ok
    /\ LET t == IF r.error.message # << >> THEN r.error.message
                ELSE r.error.json
       IN  \E mark \in QuotaMarks, i \in 1..Len(t) :
               /\ i + Len(mark) - 1 <= Len(t)
               /\ \A j \in 1..Len(mark) : t[i + j - 1] = mark[j]

\* C21: the first model call is the primary model; the fallback model is
\* called, once, iff the primary call failed with a quota error; a primary
\* failure of another kind is rethrown with no fallback call; there are at
\* most two calls; a quota failure of the fallback is reported as the
\* quota-limit message
C21_FallbackOnlyOnQuota ==
    /\ Len(svcCalls) <= 2
    /\ Len(svcResponses) <= Len(svcCalls)
    /\ svcCalls # << >> => svcCalls[1] = PrimaryModel
    /\ Len(svcCalls) = 2 => svcCalls[2] = FallbackModel
    /\ Len(svcCalls) = 2 <=>
          (svcResponses # << >> /\ QuotaFailure(svcResponses[1]))
    /\ (/\ Len(svcResponses) = 1
        /\ ~svcResponses[1].ok
        /\ ~QuotaFailure(svcResponses[1])) =>
          /\ svcPc = "done"
          /\ svcCalls = << PrimaryModel >>
          /\ svcOutcome = << Throws(svcResponses[1].error) >>
    /\ (Len(svcResponses) = 2 /\ QuotaFailure(svcResponses[2])) =>
          svcOutcome = << Throws(QuotaLimitError) >>

C21_Witness ==
    /\ svcCalls = << PrimaryModel, FallbackModel >>
    /\ Len(svcResponses) = 2
    /\ QuotaFailure(svcResponses[1])
    /\ QuotaFailure(svcResponses[2])
    /\ svcOutcome = << Throws(QuotaLimitError) >>

(***************************************************************************)
(* Properties of the App, continued                                        *)
(***************************************************************************)
\* C22: at most one performAudit request is in flight at any time
C22_AtMostOneAuditInFlight == Cardinality(audits) <= 1


\* C23: whenever executeAudit runs, the two images it reads are not null and
\* are the images in the upload slots at that moment, and the call never
\* dereferences null
C23_AuditReadsCurrentImages ==
    [][ /\ error' = "TypeError" => error = "TypeError"
        /\ \A a \in audits' \ audits :
              /\ a.cl.goods # 0
              /\ a.cl.doc # 0
              /\ a.cl.goods = goodsImage
              /\ a.cl.doc = docImage
      ]_vars

\* C24: history updates are never lost or undone: a step that changes the
\* history either clears it or puts one new result in front of the history
\* as it is at that moment, so no cleared entry comes back and no entry of
\* a completed audit is dropped
C24_HistoryNeverLosesUpdates ==
    [][ history' # history =>
            \/ history' = << >>
            \/ (history' # << >> /\ Tail(history') = history)
      ]_vars


\* C25: the mount effect loads the history from the stored item when the
\* item parses and leaves it empty otherwise; a successful audit puts its
\* result in front of the history and stores the list; whenever the item is
\* written it holds the in-memory history
C25_HistoryPersisted ==
    [][ /\ (~mounted /\ mounted') =>
              /\ history' = (IF stored.kind = "json" THEN stored.list
                             ELSE << >>)
              /\ stored' = stored
              /\ error' = error
        /\ stored' # stored =>
              (stored'.kind = "json" /\ stored'.list = history')
        /\ \A a \in audits \ audits' :
              result' = << AuditResultOf(a) >> =>
                  /\ history' = << AuditResultOf(a) >> \o history
                  /\ stored' = Stringify(history')
      ]_vars

\* the parts of C25 other than the list a result is put in front of
C25_LoadAndStore ==
    [][ /\ (~mounted /\ mounted') =>
              /\ history' = (IF stored.kind = "json" THEN stored.list
                             ELSE << >>)
              /\ stored' = stored
              /\ error' = error
        /\ stored' # stored =>
              (stored'.kind = "json" /\ stored'.list = history')
        /\ \A a \in audits \ audits' :
              result' = << AuditResultOf(a) >> =>
                  /\ history' # << >>
                  /\ history'[1] = AuditResultOf(a)
                  /\ stored' = Stringify(history')
      ]_vars


\* C26: when the performAudit call of an executeAudit fails, the error
\* message is shown, the displayed result is null and stays null, and the
\* history and its stored copy are unchanged
C26_FailureLeavesNoResult ==
    [][ \A a \in audits \ audits' :
            result' # << AuditResultOf(a) >> =>
                /\ error' = "audit failed"
                /\ result = << >>
                /\ result' = << >>
                /\ history' = history
                /\ stored' = stored
                /\ ~isAnalyzing'
      ]_vars


\* C27: isAnalyzing is true exactly while a performAudit request is in
\* flight, and while it is true loadingStepIndex never decreases and stays
\* within the indexes of dynamicSteps
C27_AnalyzingWhileInFlight ==
    [][ /\ isAnalyzing' <=> audits' # {}
        /\ (isAnalyzing /\ isAnalyzing') =>
              loadingStepIndex' >= loadingStepIndex
        /\ isAnalyzing' =>
              loadingStepIndex' \in 0..(Len(dynamicSteps') - 1)
      ]_vars

\* the parts of C27 that do not rest on a single request being in flight
C27_StepIndexInRange ==
    [][ /\ (isAnalyzing /\ isAnalyzing') =>
              loadingStepIndex' >= loadingStepIndex
        /\ isAnalyzing' =>
              loadingStepIndex' \in 0..(Len(dynamicSteps') - 1)
        /\ isAnalyzing' => audits' # {}
      ]_vars


\* C28: when an image is cleared from its slot, by the remove button or by
\* Re-upload, its preview object URL is revoked
C28_ClearedUrlIsRevoked ==
    [][ /\ (goodsImage # 0 /\ goodsImage' = 0) => goodsImage \notin liveUrls'
        /\ (docImage # 0 /\ docImage' = 0) => docImage \notin liveUrls'
      ]_vars


(***************************************************************************)
(* The complaint-email action of AuditDisplay                              *)
(* (src/components/AuditDisplay.tsx lines 25-38, 116-128, 257-258).        *)
(***************************************************************************)
\* what a generateComplaintEmail request settles with: JSON.parse of the
\* response text, which is the draft object or, for the text "null", null;
\* or a rejection (no API key, an error of the service, no text, a
\* SyntaxError)                          (src/unnamed/part_000 lines 23-83)
DraftResponses == { "draft", "null", "rejected" }

\* the draft written for the result of run run
DraftFor(run) == [for |-> run]

\* inspection_summary.status of the result on display
DisplayedStatus == statusOf[result[1].run]

\* {inspection_summary.status === 'MISMATCH' && ...}: the draft button is
\* rendered                                               (lines 116-128)
DraftActionOffered == result # << >> /\ DisplayedStatus = "MISMATCH"

\* {showEmailModal && emailDraft && ...}                       (line 258)
EmailModalShown == result # << >> /\ showEmailModal /\ emailDraft # << >>

\* a click on the enabled draft button: handleDraftEmail up to its await
\*                                                  (lines 25-28, 126)
HandleDraftEmail ==
    /\ DraftActionOffered
    /\ ~isGeneratingEmail
    /\ isGeneratingEmail' = TRUE
    /\ drafts' = drafts \cup { [for |-> result[1].run, live |-> TRUE] }
    /\ emailAlert' = FALSE
    /\ UNCHANGED <<showEmailModal, emailDraft, hasCopied, statusOf>>
    /\ UNCHANGED <<gateVars, appVars, svcVars, mounted>>

\* handleDraftEmail after its await: the request d settles with response;
\* the state setters of a component that was unmounted do nothing
\*                                                        (lines 28-37)
DraftSettles(d, response) ==
    /\ d \in drafts
    /\ drafts' = drafts \ {d}
    /\ emailAlert' = (emailAlert \/ response = "rejected")
    /\ IF d.live
       THEN /\ isGeneratingEmail' = FALSE
            /\ IF response = "rejected"
               THEN UNCHANGED <<emailDraft, showEmailModal, hasCopied>>
               ELSE /\ emailDraft' = (IF response = "null" THEN << >>
                                      ELSE << DraftFor(d.for) >>)
                    /\ showEmailModal' = TRUE
                    /\ hasCopied' = FALSE
       ELSE UNCHANGED <<isGeneratingEmail, emailDraft, showEmailModal,
                        hasCopied>>
    /\ UNCHANGED statusOf
    /\ UNCHANGED <<gateVars, appVars, svcVars, mounted>>

\* the backdrop, the cross and the Close button of the modal
\*                                                 (lines 261, 273, 328)
CloseEmailModal ==
    /\ EmailModalShown
    /\ showEmailModal' = FALSE
    /\ UNCHANGED <<isGeneratingEmail, emailDraft, hasCopied, drafts,
                   emailAlert, statusOf>>
    /\ UNCHANGED <<gateVars, appVars, svcVars, mounted>>

\* the Copy to Clipboard button of the modal               (lines 40-53)
CopyToClipboard ==
    /\ EmailModalShown
    /\ IF emailDraft # << >>
       THEN hasCopied' = TRUE
       ELSE UNCHANGED hasCopied
    /\ UNCHANGED <<isGeneratingEmail, showEmailModal, emailDraft, drafts,
                   emailAlert, statusOf>>
    /\ UNCHANGED <<gateVars, appVars, svcVars, mounted>>

\* the timeout a copy started, two seconds later           (lines 49-51)
CopyFeedbackEnds ==
    /\ hasCopied
    /\ hasCopied' = FALSE
    /\ UNCHANGED <<isGeneratingEmail, showEmailModal, emailDraft, drafts,
                   emailAlert, statusOf>>
    /\ UNCHANGED <<gateVars, appVars, svcVars, mounted>>

\* the App with the statuses the service will report for its runs
MailInit ==
    /\ GateIdle
    /\ AppMounted
    /\ SvcIdle
    /\ AuditDisplayFresh
    /\ drafts = {}
    /\ emailAlert = FALSE
    /\ statusOf \in [1..MaxRuns -> Statuses]

MailNext ==
    \/ AppNext
    \/ HandleDraftEmail
    \/ \E d \in drafts, response \in DraftResponses : DraftSettles(d, response)
    \/ CloseEmailModal
    \/ CopyToClipboard
    \/ CopyFeedbackEnds

\* the App together with the AuditDisplay it renders
MailSpec == MailInit /\ [][MailNext]_vars

\* the draft requests of the AuditDisplay that is mounted
LiveDrafts == { d \in drafts : d.live }

\* C29 (the parts about the request): a draft is requested only for a
\* result whose status is MISMATCH; isGeneratingEmail is true exactly while
\* a request of the mounted component is in flight and every settlement
\* resets it; a request that fails opens no modal and leaves the draft as
\* it was.
C29_DraftRequestLifecycle ==
    [][ /\ \A d \in drafts' : statusOf[d.for] = "MISMATCH"
        /\ isGeneratingEmail' <=> LiveDrafts' # {}
        /\ \A d \in LiveDrafts \ drafts' : ~isGeneratingEmail'
        /\ (emailAlert' /\ ~emailAlert) =>
              /\ showEmailModal' = showEmailModal
              /\ emailDraft' = emailDraft ]_vars

\* C29: the complaint-email action is offered only for a MISMATCH result,
\* isGeneratingEmail is true exactly while a draft request is in flight and
\* is reset on success and on failure, the email modal is shown only with a
\* non-null draft that was returned for the result on display, and a failed
\* request opens no modal and leaves the earlier draft unchanged.
C29_EmailModalForDisplayedResult ==
    [][ /\ \A d \in drafts' : statusOf[d.for] = "MISMATCH"
        /\ isGeneratingEmail' <=> LiveDrafts' # {}
        /\ \A d \in LiveDrafts \ drafts' : ~isGeneratingEmail'
        /\ EmailModalShown' =>
              /\ emailDraft' # << >>
              /\ emailDraft'[1] = DraftFor(result'[1].run)
        /\ (emailAlert' /\ ~emailAlert) =>
              /\ showEmailModal' = showEmailModal
              /\ emailDraft' = emailDraft ]_vars

====
